---- MODULE Spec2Model ----
(***************************************************************************)
(* A model of txjson: the value node tree built by TxListener (ast.ts),    *)
(* the schema registry and its built-in validators (schema.ts), the type   *)
(* algebra of schema documents (namespace Schema in schema.ts), the        *)
(* bootstrap meta-schema (createSchemaOfSchema) and the two entry points   *)
(* parse and parseSchema (index.ts).                                       *)
(*                                                                         *)
(* JavaScript values are records tagged by the field t; a node tree is a   *)
(* heap: a sequence of node records addressed by their index, children     *)
(* and parent being indices (0 = no parent).  Validators, deserializers    *)
(* and preprocessors are closures in the source; here a registry entry is  *)
(* a descriptor record and Call* operators interpret the descriptors.      *)
(***************************************************************************)
EXTENDS Integers, Sequences, FiniteSets, TLC

VARIABLES
  pc,        \* position of the caller: "init", "ready", "built", "preprocessed", "validated",
             \* "done", "invalid" (exitRoot threw), "failed" (reading root.value threw)
  call,      \* the entry point that is running: "none", "parseSchema" or "parse"
  base,      \* the schema object the caller made with createSchema(overrides)
  active,    \* the schema object handed to parse (base itself or parseSchema's result)
  heap,      \* the value node tree of the document being parsed
  root,      \* listener.root: index of the ':document' node in heap
  log,       \* every registry entry invoked so far, in order
  cache,     \* _value of every node of heap (Empty = not yet computed)
  outcome,   \* what parse returned or threw
  applied,   \* the last direct application of a declared type's validator or deserializer
  passed     \* the schema object the caller passed to the call, as the caller sees it:
             \* activeSchema = new Schema(passed) has tables of its own and the meta
             \* entries of passed

vars == <<pc, call, base, active, heap, root, log, cache, outcome, applied, passed>>

----------------------------------------------------------------------------
(* JavaScript values *)

Undef == [t |-> "undefined"]
Null == [t |-> "null"]
\* a number x is kept as 10 * x, so that 1.5 is x10 = 15
Num(n) == [t |-> "number", x10 |-> 10 * n]
Frac(x) == [t |-> "number", x10 |-> x]
Str(s) == [t |-> "string", s |-> s]
Bool(b) == [t |-> "boolean", b |-> b]
BigInt(n) == [t |-> "bigint", n |-> n]
Arr(e) == [t |-> "array", e |-> e]
\* an object keeps its keys in insertion order: ks[i] maps to e[i]
Obj(ks, e) == [t |-> "object", ks |-> ks, e |-> e]
\* emptyValue = Symbol.for("TXJSON_EMPTY")
Empty == [t |-> "TXJSON_EMPTY"]

\* typeof v
TypeOf(v) ==
  CASE v.t = "number" -> "number"
    [] v.t = "string" -> "string"
    [] v.t = "boolean" -> "boolean"
    [] v.t = "bigint" -> "bigint"
    [] v.t = "undefined" -> "undefined"
    [] v.t = "function" -> "function"
    [] OTHER -> "object"

IsArray(v) == v.t = "array"
IsNullish(v) == v.t \in {"null", "undefined"}

SeqToSet(s) == {s[i] : i \in 1..Len(s)}

\* F(v), with v computed before F is entered (JavaScript computes an argument
\* before the call)
Eval(v, F(_)) == CHOOSE r \in {F(x) : x \in {v}} : TRUE

\* index of the first occurrence of k in ks, 0 when absent
RECURSIVE IndexOf(_, _)
IndexOf(ks, k) ==
  IF ks = <<>> THEN 0
  ELSE IF ks[1] = k THEN 1
  ELSE LET r == IndexOf(Tail(ks), k) IN IF r = 0 THEN 0 ELSE r + 1

\* Object.assign(p, {[k]: v}): a repeated key keeps its place and takes the new value
ObjSet(o, k, v) ==
  LET i == IndexOf(o.ks, k) IN
  IF i = 0 THEN Obj(Append(o.ks, k), Append(o.e, v))
  ELSE Obj(o.ks, [o.e EXCEPT ![i] = v])

ObjHas(o, k) == IndexOf(o.ks, k) # 0
ObjGet(o, k) == IF ObjHas(o, k) THEN o.e[IndexOf(o.ks, k)] ELSE Undef

RECURSIVE ObjFromEntries(_, _)
ObjFromEntries(ks, vs) ==
  IF ks = <<>> THEN Obj(<<>>, <<>>)
  ELSE ObjSet(ObjFromEntries(SubSeq(ks, 1, Len(ks) - 1), SubSeq(vs, 1, Len(vs) - 1)),
              ks[Len(ks)], vs[Len(vs)])

----------------------------------------------------------------------------
(* Source documents: the parse tree of grammar TxJSON.g4, as terms *)

TPrim(ty, v) == [c |-> "prim", ty |-> ty, v |-> v]
TNum(n) == TPrim(":number", Num(n))
TStr(s) == TPrim(":string", Str(s))
TNull == TPrim(":null", Null)
TUndef == TPrim(":undefined", Undef)
TFrac(x) == TPrim(":number", Frac(x))
TBool(b) == TPrim(":boolean", Bool(b))
\* IDENTIFIER value?  (sub is <<>> when the tag stands alone)
TTyped(tag, sub) == [c |-> "typed", tag |-> tag, sub |-> sub]
TTag(tag) == TTyped(tag, <<>>)
TTag1(tag, x) == TTyped(tag, <<x>>)
TArr(items) == [c |-> "arr", sub |-> items]
TPair(k, x) == [c |-> "pair", key |-> k, sub |-> <<x>>]
TObj(pairs) == [c |-> "obj", sub |-> pairs]
TCtor(tag, args) == [c |-> "ctor", tag |-> tag, sub |-> args]
TProto(tag, o) == [c |-> "proto", tag |-> tag, sub |-> <<o>>]
TRoot(sub) == [c |-> "root", sub |-> sub]

----------------------------------------------------------------------------
(* The value node tree *)

Node(kind, typeName, raw, key, children) ==
  [kind |-> kind, typeName |-> typeName, raw |-> raw, key |-> key,
   children |-> children, parent |-> 0]

PrimitiveNode(typeName, raw) == Node("primitive", typeName, raw, "", <<>>)
ArrayNode(children) == Node("array", ":array", Undef, "", children)
PairNode(key, children) == Node("pair", ":pair", Undef, key, children)
ObjectNode(children) == Node("object", ":object", Undef, "", children)
TypedValueNode(typeName, children) == Node("typed", typeName, Undef, "", children)
ProtoConstructionNode(typeName, children) == Node("proto", typeName, Undef, "", children)
CtorCallValueNode(typeName, children) == Node("class", typeName, Undef, "", children)

\* endNode / addNode: the nodes collected on the top stack frame become the
\* children of the new node, which is pushed as the last node of the heap
AddNode(h, node) ==
  LET id == Len(h) + 1 IN
  [heap |-> Append([i \in 1..Len(h) |->
                      IF i \in SeqToSet(node.children)
                      THEN [h[i] EXCEPT !.parent = id] ELSE h[i]],
                   node),
   id |-> id]

\* endNode of a Typed node that takes the frame as it is
EndNodeTypedBare(h, typeName, ids) == AddNode(h, TypedValueNode(typeName, ids))

\* a Typed node written without a value gets the implicit ':undefined' child
EndNodeTyped(h, typeName, ids) ==
  IF ids = <<>>
  THEN LET u == AddNode(h, PrimitiveNode(":undefined", Undef)) IN
       AddNode(u.heap, TypedValueNode(typeName, <<u.id>>))
  ELSE AddNode(h, TypedValueNode(typeName, ids))

RECURSIVE BuildTerm(_, _)
RECURSIVE BuildSeq(_, _)
\* the walk of one parse tree node: enter (beginNode), the children, exit (endNode)
BuildTerm(h, x) ==
  IF x.c = "prim" THEN AddNode(h, PrimitiveNode(x.ty, x.v))
  ELSE
    LET sub == BuildSeq(h, x.sub) IN
    CASE x.c = "arr" -> AddNode(sub.heap, ArrayNode(sub.ids))
      [] x.c = "obj" -> AddNode(sub.heap, ObjectNode(sub.ids))
      [] x.c = "pair" -> AddNode(sub.heap, PairNode(x.key, sub.ids))
      [] x.c = "typed" -> EndNodeTyped(sub.heap, x.tag, sub.ids)
      [] x.c = "proto" -> AddNode(sub.heap, ProtoConstructionNode(x.tag, sub.ids))
      [] x.c = "ctor" ->
           LET args == AddNode(sub.heap, ArrayNode(sub.ids)) IN
           AddNode(args.heap, CtorCallValueNode(x.tag, <<args.id>>))
      [] x.c = "root" -> EndNodeTyped(sub.heap, ":document", sub.ids)

BuildSeq(h, xs) ==
  IF xs = <<>> THEN [heap |-> h, ids |-> <<>>]
  ELSE Eval(BuildTerm(h, xs[1]),
            LAMBDA first: Eval(BuildSeq(first.heap, Tail(xs)),
                               LAMBDA rest: [heap |-> rest.heap,
                                             ids |-> <<first.id>> \o rest.ids]))

\* walker.walk(listener, parser.root()) up to the creation of listener.root
Build(doc) == BuildTerm(<<>>, TRoot(<<doc>>))

Children(h, n) == h[n].children
Child0(h, n) == IF h[n].children = <<>> THEN 0 ELSE h[n].children[1]

RECURSIVE RawValue(_, _)
RECURSIVE RawObject(_, _, _)
\* get rawValue() of each node class
RawValue(h, n) ==
  CASE h[n].kind = "primitive" -> h[n].raw
    [] h[n].kind \in {"array", "class"} ->
         Arr([i \in 1..Len(h[n].children) |-> RawValue(h, h[n].children[i])])
    [] h[n].kind = "object" -> RawObject(h, h[n].children, Obj(<<>>, <<>>))
    [] OTHER -> IF h[n].children = <<>> THEN Undef ELSE RawValue(h, h[n].children[1])

RawObject(h, pairs, acc) ==
  IF pairs = <<>> THEN acc
  ELSE RawObject(h, Tail(pairs), ObjSet(acc, h[pairs[1]].key, RawValue(h, pairs[1])))

\* get ancestors(): outermost first
RECURSIVE Ancestors(_, _)
Ancestors(h, n) ==
  IF h[n].parent = 0 THEN <<>> ELSE Append(Ancestors(h, h[n].parent), h[n].parent)

StartsWithColon(name) ==
  name \in {":document", ":array", ":object", ":pair", ":number", ":string", ":null",
            ":undefined", ":boolean", ":bigint", ":regexp", ":root"}

----------------------------------------------------------------------------
(* Errors, events and results *)

NoErr == [m |-> "none"]
\* new ValueError(acc, msg, simplified); subs are the sub-errors whose messages
\* the constructor call embeds, each under its key, in Object.entries order
ValueError(n, m) == [m |-> m, at |-> n, simplified |-> FALSE, subs |-> <<>>]
ValueErrorS(n, m) == [m |-> m, at |-> n, simplified |-> TRUE, subs |-> <<>>]
Composed(n, m, subs) == [m |-> m, at |-> n, simplified |-> FALSE, subs |-> subs]
\* a JavaScript TypeError raised by the runtime (reading a property of undefined)
TypeError == [m |-> "TypeError", at |-> 0, simplified |-> FALSE, subs |-> <<>>]
\* the RangeError of the runtime when the call stack is exhausted
RangeError == [m |-> "RangeError", at |-> 0, simplified |-> FALSE, subs |-> <<>>]
IsErr(e) == e.m # "none"
\* e.simplified = true
Simplify(e) == IF IsErr(e) /\ e.m \notin {"TypeError", "RangeError"} THEN [e EXCEPT !.simplified = TRUE] ELSE e
Sub(k, e) == [k |-> k, e |-> e]

\* one invocation of a registry entry: op is "pre", "val" or "des", name the key
\* it was found under, node the accessor it was called with, by the caller (the
\* kind of the node whose method made the call, or the type that made it).
\* op "unknown" records that the node's own unknown-type test threw.
Event(op, name, n, by) == [op |-> op, name |-> name, node |-> n, by |-> by]
NodeKinds == {"primitive", "array", "pair", "object", "typed", "proto", "class"}
\* the events of validators that a deserializer called
CalledBy(by, ev) == [i \in 1..Len(ev) |-> [ev[i] EXCEPT !.by = by]]

\* the outcome of calling a validator: the error it returned (e), or the
\* exception it threw (thr), and the registry entries invoked on the way
VR(e, ev) == [e |-> e, thr |-> NoErr, ev |-> ev]
VThrow(x, ev) == [e |-> NoErr, thr |-> x, ev |-> ev]
VOk == VR(NoErr, <<>>)
\* a validator result r preceded by the events ev
After(ev, r) == [r EXCEPT !.ev = ev \o r.ev]
Accepts(r) == ~IsErr(r.e) /\ ~IsErr(r.thr)

\* IdxKey[i + 1] is the property key of array index i
IdxKey == <<"0", "1", "2", "3", "4", "5", "6", "7", "8", "9">>

----------------------------------------------------------------------------
(* Registry tables: a table is a function from its keys to descriptors *)

\* a key whose value is undefined
UndefD == [k |-> "undef"]
BuiltinD(name) == [k |-> "builtin", name |-> name]
UserD(id) == [k |-> "user", id |-> id]
TypeD(ty) == [k |-> "type", ty |-> ty]
MetaD(name) == [k |-> "meta", name |-> name]
MetaRefD(name) == [k |-> "metaref", name |-> name]
EmptyTable == [x \in {} |-> UndefD]

\* name in table
In(name, table) == name \in DOMAIN table
\* table[name]
Get(table, name) == IF name \in DOMAIN table THEN table[name] ELSE UndefD
Defined(d) == d.k # "undef"
\* a ?? b
Coalesce(a, b) == IF Defined(a) THEN a ELSE b
\* Object.assign(Object.create(null), f, g)
Assign(f, g) == [x \in DOMAIN f \cup DOMAIN g |-> IF x \in DOMAIN g THEN g[x] ELSE f[x]]

\* new Schema(schema): a copy of the six tables
NewSchema(classes, prototypes, deserializers, validators, preprocessors, meta) ==
  [t |-> "schema", classes |-> classes, prototypes |-> prototypes,
   deserializers |-> deserializers, validators |-> validators,
   preprocessors |-> preprocessors, meta |-> meta]

NoMeta == [knownTypes |-> {}, schema |-> Obj(<<>>, <<>>)]

BuiltinClasses ==
  {"Uint8Array", "Uint8ClampedArray", "Int8Array", "Uint16Array", "Int16Array",
   "Uint32Array", "Int32Array", "BigInt64Array", "BigUint64Array", "Float32Array",
   "Float64Array", "Map", "Set", "Date"}

BuiltinDeserializers ==
  [x \in {"bigint", "undefined", "int", "bool", "boolean", "float", "number", "string",
          "any", "object", "array", "null"} |->
     IF x \in {"bigint", "undefined", "int", "float", "number"} THEN BuiltinD(x) ELSE UndefD]

NumericValidatorNames ==
  {"int8", "uint8", "int16", "uint16", "int32", "uint32", "int64", "uint64", "float32",
   "float64"}

\* createTypedArrayValidator(type, numericValidators[type]) of each binary array
TypedArrayElement ==
  [Int8Array |-> "int8", Uint8Array |-> "uint8", Uint8ClampedArray |-> "uint8",
   Int16Array |-> "int16", Uint16Array |-> "uint16", Int32Array |-> "int32",
   Uint32Array |-> "uint32", BigInt64Array |-> "int64", BigUint64Array |-> "uint64",
   Float32Array |-> "float32", Float64Array |-> "float64"]
TypedArrayNames == DOMAIN TypedArrayElement

PrimitiveValidatorNames ==
  NumericValidatorNames \cup TypedArrayNames \cup
  {"float", "int", "uint", "undefined", "string", "number", "bigint", "boolean", "bool",
   "object", "array"}

BuiltinValidators == [x \in PrimitiveValidatorNames |-> BuiltinD(x)]

\* createSchema(overrides)
createSchema(o) ==
  NewSchema(BuiltinClasses \cup o.classes, o.prototypes,
            Assign(BuiltinDeserializers, o.deserializers),
            Assign(BuiltinValidators, o.validators),
            EmptyTable, NoMeta)

\* what the caller may pass to createSchema
Overrides(classes, prototypes, deserializers, validators) ==
  [classes |-> classes, prototypes |-> prototypes, deserializers |-> deserializers,
   validators |-> validators]

----------------------------------------------------------------------------
(* Built-in validators of createSchema *)

\* acc.parent ?? acc
ParentOr(h, n) == IF h[n].parent = 0 THEN n ELSE h[n].parent

\* createPrimitiveValidator(type, chain): chain is the result of the chained validator
\* the integers next to a number; x < lower iff Floor(x) < lower, and
\* x > upper iff Ceil(x) > upper, for integer bounds
Floor(v) == v.x10 \div 10
Ceil(v) == 0 - ((0 - v.x10) \div 10)
\* 4294967295, the upper bound of uint32: the largest integer of the model,
\* above every number a document of the model holds
UInt32Max == 2147483647

createPrimitiveValidator(h, n, types, chain) ==
  IF TypeOf(RawValue(h, n)) \in types THEN chain
  ELSE ValueError(ParentOr(h, n), "expected primitive")

createIntValidator(h, n, accepted, chain) ==
  createPrimitiveValidator(h, n, accepted,
    IF RawValue(h, n).t = "number" /\ RawValue(h, n).x10 % 10 # 0
    THEN ValueError(ParentOr(h, n), "non-integer value")
    ELSE chain)

\* createBoundNumberValidator without the comparison with upper
createBoundNumberValidatorLowerOnly(h, n, accepted, lower, upper, chain) ==
  createPrimitiveValidator(h, n, accepted,
    IF RawValue(h, n).t = "number" /\ Floor(RawValue(h, n)) < lower
    THEN ValueError(ParentOr(h, n), "expected number in range")
    ELSE chain)

createBoundNumberValidator(h, n, accepted, lower, upper, chain) ==
  createPrimitiveValidator(h, n, accepted,
    IF RawValue(h, n).t = "number"
       /\ (Floor(RawValue(h, n)) < lower \/ Ceil(RawValue(h, n)) > upper)
    THEN ValueError(ParentOr(h, n), "expected number in range")
    ELSE chain)

createUintValidator(h, n, accepted, chain) ==
  createIntValidator(h, n, accepted,
    IF RawValue(h, n).t = "number" /\ RawValue(h, n).x10 < 0
    THEN ValueError(ParentOr(h, n), "expected positive value")
    ELSE chain)

RECURSIVE BuiltinValidator(_, _, _)
\* createArrayValidator(type, elementValidator): the first error of the elements
createArrayValidator(h, n, element) ==
  IF h[n].typeName = ":array"
  THEN LET es == [i \in 1..Len(h[n].children) |->
                    BuiltinValidator(element, h, h[n].children[i])]
           failing == {i \in DOMAIN es : IsErr(es[i])}
       IN IF failing = {} THEN NoErr
          ELSE es[CHOOSE i \in failing : \A j \in failing : i <= j]
  ELSE ValueError(n, "expected an array of type")

\* createSignatureValidator([type + "[]"], [createArrayValidator(type, element)]):
\* validators[i]?.(c) is defined for the argument of index 0 only
createTypedArrayValidator(h, n, element) ==
  LET arr == Child0(h, n) IN
  IF arr = 0 \/ h[arr].typeName # ":array" THEN ValueError(n, "invalid argument")
  ELSE LET args == h[arr].children
           e == IF args = <<>> THEN NoErr ELSE createArrayValidator(h, args[1], element)
       IN IF IsErr(e) THEN Composed(n, "invalid arguments", <<Sub("0", Simplify(e))>>)
          ELSE NoErr

\* the entries of primitiveValidators
BuiltinValidator(name, h, n) ==
  CASE name = "float" -> createPrimitiveValidator(h, n, {"number"}, NoErr)
    [] name = "number" -> createPrimitiveValidator(h, n, {"number"}, NoErr)
    [] name = "float64" -> createPrimitiveValidator(h, n, {"number"}, NoErr)
    [] name = "int8" ->
         createUintValidator(h, n, {"number"},
           createBoundNumberValidator(h, n, {"number"}, 0 - 128, 127, NoErr))
    [] name = "uint8" ->
         createUintValidator(h, n, {"number"},
           createBoundNumberValidator(h, n, {"number"}, 0, 255, NoErr))
    [] name = "int16" ->
         createIntValidator(h, n, {"number"},
           createBoundNumberValidator(h, n, {"number"}, 0, 65535, NoErr))
    [] name = "uint16" ->
         createIntValidator(h, n, {"number"},
           createBoundNumberValidator(h, n, {"number"}, 0 - 32767, 32767, NoErr))
    [] name = "int32" ->
         createIntValidator(h, n, {"number"},
           createBoundNumberValidator(h, n, {"number"}, 0 - 2147483647, 2147483647, NoErr))
    [] name = "uint32" ->
         createIntValidator(h, n, {"number"},
           createBoundNumberValidator(h, n, {"number"}, 0, UInt32Max, NoErr))
    [] name = "int64" -> createIntValidator(h, n, {"number", "bigint"}, NoErr)
    [] name = "uint64" -> createUintValidator(h, n, {"number", "bigint"}, NoErr)
    \* the lower bound 1.175494e-38 lies between 0 and the least positive number
    \* of the model, the upper bound 3.4028237e38 above them all
    [] name = "float32" ->
         createPrimitiveValidator(h, n, {"number"},
           IF RawValue(h, n).t = "number" /\ RawValue(h, n).x10 <= 0
           THEN ValueError(ParentOr(h, n), "expected number in range") ELSE NoErr)
    [] name = "int" -> createIntValidator(h, n, {"number"}, NoErr)
    [] name = "uint" -> createUintValidator(h, n, {"number"}, NoErr)
    [] name = "undefined" -> createPrimitiveValidator(h, n, {"undefined"}, NoErr)
    [] name = "string" -> createPrimitiveValidator(h, n, {"string"}, NoErr)
    [] name \in {"boolean", "bool"} -> createPrimitiveValidator(h, n, {"boolean"}, NoErr)
    [] name = "bigint" ->
         createPrimitiveValidator(h, n, {"bigint", "string", "number"},
           IF RawValue(h, n).t = "string" /\ RawValue(h, n).s \notin {"123", "-7"}
           THEN ValueError(n, "invalid bigint") ELSE NoErr)
    [] name = "object" ->
         createPrimitiveValidator(h, n, {"object"},
           IF IsArray(RawValue(h, n)) THEN ValueError(n, "non-object value") ELSE NoErr)
    [] name = "array" ->
         IF IsArray(RawValue(h, n)) THEN NoErr ELSE ValueError(n, "invalid built-in array value")
    [] name \in TypedArrayNames -> createTypedArrayValidator(h, n, TypedArrayElement[name])
    [] OTHER -> NoErr

----------------------------------------------------------------------------
(* The type algebra (namespace Schema): the objects a schema document         *)
(* deserializes to.  Every type captures baseSchema, which is c.b below;      *)
(* acc.schema is c.s and the tree of acc is c.h.                              *)

Literal(type, value) == [t |-> "type", c |-> "Literal", type |-> type, value |-> value]
Maybe(inner) == [t |-> "type", c |-> "Maybe", inner |-> inner]
ArrayOf(inner) == [t |-> "type", c |-> "ArrayOf", inner |-> inner]
\* fields is Null (any object) or an object value mapping field names to types
TObject(fields) ==
  [t |-> "type", c |-> "TObject",
   fields |-> IF fields.t = "object" THEN fields ELSE Null]
OneOf(types, namespace) ==
  [t |-> "type", c |-> "OneOf", types |-> types, namespace |-> namespace]
ArrayFixed(types, label) ==
  [t |-> "type", c |-> "ArrayFixed", types |-> types, label |-> label]
Terminal(name) == [t |-> "type", c |-> "Terminal", name |-> name]
\* from is "" when the source passes null
Alias(from, to) == [t |-> "type", c |-> "Alias", from |-> from, to |-> to]
\* args is an ArrayFixed or Undef
Class(className, args) ==
  [t |-> "type", c |-> "Class", className |-> className, args |-> args]

\* calls holds the validator calls that have not returned yet
Ctx(h, s, b) == [h |-> h, s |-> s, b |-> b, calls |-> {}]

\* the name some table of schema s knows: the test of ASTNode.validate and Alias.validator
Known(s, name) ==
  \/ name \in s.classes
  \/ name \in s.prototypes
  \/ In(name, s.deserializers)
  \/ In(name, s.validators)

\* the test Maybe makes before it delegates
MaybeKnows(s, name) ==
  In(name, s.validators) \/ In(name, s.deserializers) \/ StartsWithColon(name)

\* acc.typeName === ":object" ? acc : acc.children[0]   (also with ":array")
SelfOrChild(h, n, typeName) == IF h[n].typeName = typeName THEN n ELSE Child0(h, n)

\* obj.children.find((v) => v.key === k)?.children[0]
RECURSIVE FindField(_, _, _)
FindField(h, pairs, k) ==
  IF pairs = <<>> THEN 0
  ELSE IF h[pairs[1]].key = k THEN Child0(h, pairs[1])
  ELSE FindField(h, Tail(pairs), k)

\* the "unknown field" entries: the keys of rawValue that fields does not declare
RECURSIVE UnknownFields(_, _, _)
UnknownFields(n, ks, fields) ==
  IF ks = <<>> THEN <<>>
  ELSE (IF ObjHas(fields, ks[1]) THEN <<>>
        ELSE <<Sub(ks[1], ValueErrorS(n, "unknown field"))>>)
       \o UnknownFields(n, Tail(ks), fields)

\* no entry for the elements beyond the declared types
ExtraIndexesAllowed(children, i) == <<>>

\* the "length mismatch" entries of ArrayFixed: every index from i on
RECURSIVE ExtraIndexes(_, _)
ExtraIndexes(children, i) ==
  IF i >= Len(children) THEN <<>>
  ELSE <<Sub(IdxKey[i + 1], ValueErrorS(children[i + 1], "length mismatch"))>>
       \o ExtraIndexes(children, i + 1)

\* the result of a loop that collects sub-errors
LR(subs, ev) == [subs |-> subs, thr |-> NoErr, ev |-> ev]
LThrow(x, ev) == [subs |-> <<>>, thr |-> x, ev |-> ev]

RECURSIVE TypeValidator(_, _, _)
RECURSIVE CallValidator(_, _, _)
RECURSIVE RegistryValidator(_, _, _, _, _)
RECURSIVE ArrayOfLoop(_, _, _, _)
RECURSIVE TObjectLoop(_, _, _, _, _)
RECURSIVE OneOfLoop(_, _, _, _)
RECURSIVE ArrayFixedLoop(_, _, _, _, _)
RECURSIVE MetaValidator(_, _, _)

\* table[key]?.(n), the call recorded in the log
\* table[key](n), the call recorded in the log.  A validator that is called with
\* a node while its call with that node has not returned never returns: the
\* runtime ends the recursion with a RangeError
RegistryValidator(c, table, key, n, by) ==
  LET this == [key |-> key, node |-> n, own |-> table = c.s.validators] IN
  IF ~Defined(Get(table, key)) THEN VOk
  ELSE IF this \in c.calls THEN VThrow(RangeError, <<Event("val", key, n, by)>>)
  ELSE After(<<Event("val", key, n, by)>>,
             CallValidator([c EXCEPT !.calls = @ \cup {this}], table[key], n))

\* (table[key] ?? table["*"])?.(n)
WildKey(table, key) == IF Defined(Get(table, key)) THEN key ELSE "*"

\* a validator of the caller: one that accepts every node, one that rejects every node
UserValidator(id, n) == IF id = "reject" THEN VR(ValueError(n, "rejected"), <<>>) ELSE VOk

CallValidator(c, d, n) ==
  CASE d.k = "builtin" ->
         IF n = 0 THEN VThrow(TypeError, <<>>) ELSE VR(BuiltinValidator(d.name, c.h, n), <<>>)
    [] d.k = "user" -> UserValidator(d.id, n)
    [] d.k = "type" -> TypeValidator(c, d.ty, n)
    [] d.k = "meta" -> MetaValidator(c, d.name, n)
    [] OTHER -> VThrow(TypeError, <<>>)

\* ArrayOf.validator: for (const v of arr.children) { e = innerValidator(v); if (e) return e }
ArrayOfLoop(c, inner, children, i) ==
  IF i > Len(children) THEN VOk
  ELSE LET r == TypeValidator(c, inner, children[i]) IN
       IF ~Accepts(r) THEN r
       ELSE After(r.ev, ArrayOfLoop(c, inner, children, i + 1))

\* TObject.validator: the loop over the declared fields, from field i on
TObjectLoop(c, fields, acc, obj, i) ==
  IF i > Len(fields.ks) THEN LR(<<>>, <<>>)
  ELSE
    LET k == fields.ks[i]
        v == FindField(c.h, c.h[obj].children, k)
        r == TypeValidator(c, fields.e[i], v)
        rest == TObjectLoop(c, fields, acc, obj, i + 1)
    IN IF v = 0
       THEN IF fields.e[i].c = "Maybe" THEN rest
            ELSE [rest EXCEPT !.subs = <<Sub(k, ValueErrorS(acc, "missing field"))>> \o @]
       ELSE IF IsErr(r.thr) THEN LThrow(r.thr, r.ev)
       ELSE IF IsErr(rest.thr) THEN LThrow(rest.thr, r.ev \o rest.ev)
       ELSE LR((IF IsErr(r.e) THEN <<Sub(k, Simplify(r.e))>> ELSE <<>>) \o rest.subs,
               r.ev \o rest.ev)

\* OneOf.validator: the first alternative that returns no error ends the loop
\* (reported as no sub-errors and ok); a throwing alternative is skipped
OneOfLoop(c, types, acc, i) ==
  IF i > Len(types) THEN [subs |-> <<>>, ok |-> FALSE, ev |-> <<>>]
  ELSE
    LET r == TypeValidator(c, types[i], acc) IN
    IF Accepts(r) THEN [subs |-> <<>>, ok |-> TRUE, ev |-> r.ev]
    ELSE LET rest == OneOfLoop(c, types, acc, i + 1) IN
         [subs |-> IF rest.ok THEN <<>>
                   ELSE (IF IsErr(r.thr) THEN <<>> ELSE <<Sub(IdxKey[i], Simplify(r.e))>>)
                        \o rest.subs,
          ok |-> rest.ok,
          ev |-> r.ev \o rest.ev]

\* ArrayFixed.validator: the loop over the declared types, from index i (0-based) on
ArrayFixedLoop(c, types, acc, arr, i) ==
  IF i >= Len(types) THEN LR(<<>>, <<>>)
  ELSE
    LET children == c.h[arr].children
        r == TypeValidator(c, types[i + 1], children[i + 1])
        rest == ArrayFixedLoop(c, types, acc, arr, i + 1)
    IN IF i < Len(children)
       THEN IF IsErr(r.thr) THEN LThrow(r.thr, r.ev)
            ELSE IF IsErr(rest.thr) THEN LThrow(rest.thr, r.ev \o rest.ev)
            ELSE LR((IF IsErr(r.e) THEN <<Sub(IdxKey[i + 1], Simplify(r.e))>> ELSE <<>>)
                    \o rest.subs, r.ev \o rest.ev)
       ELSE IF types[i + 1].c = "Maybe" THEN rest
       ELSE [rest EXCEPT !.subs = <<Sub(IdxKey[i + 1], ValueErrorS(acc, "missing index"))>> \o @]

LiteralValidator(c, ty, acc) ==
  VR(createPrimitiveValidator(c.h, acc, {TypeOf(ty.value)},
       IF RawValue(c.h, acc) = ty.value THEN NoErr ELSE ValueError(acc, "value mismatch")),
     <<>>)

MaybeValidator(c, ty, acc) ==
  IF IsNullish(RawValue(c.h, acc)) THEN VOk
  ELSE IF ~MaybeKnows(c.s, c.h[acc].typeName) THEN VR(ValueError(acc, "unknown type"), <<>>)
  ELSE TypeValidator(c, ty.inner, acc)

ArrayOfValidator(c, ty, acc) ==
  IF ~IsArray(RawValue(c.h, acc)) THEN VR(ValueError(acc, "expected array of type"), <<>>)
  ELSE LET arr == Child0(c.h, acc) IN
       IF arr = 0 \/ c.h[arr].children = <<>> THEN VOk
       ELSE ArrayOfLoop(c, ty.inner, c.h[arr].children, 1)

TObjectValidator(c, ty, acc) ==
  LET obj == SelfOrChild(c.h, acc, ":object") IN
  IF ty.fields.t = "null"
  THEN IF obj = 0 \/ c.h[obj].typeName # ":object"
       THEN VR(ValueError(obj, "expected object"), <<>>) ELSE VOk
  ELSE IF obj = 0 THEN VThrow(TypeError, <<>>)
  ELSE IF c.h[obj].typeName # ":object" \/ TypeOf(RawValue(c.h, acc)) # "object"
       THEN VR(ValueError(acc, "expected object with signature"), <<>>)
  ELSE
    LET loop == TObjectLoop(c, ty.fields, acc, obj, 1)
        subs == loop.subs \o UnknownFields(acc, RawValue(c.h, obj).ks, ty.fields)
    IN IF IsErr(loop.thr) THEN VThrow(loop.thr, loop.ev)
       ELSE IF subs # <<>>
       THEN VR(Composed(acc, "expected object with signature", subs), loop.ev)
       ELSE After(loop.ev, RegistryValidator(c, c.b.validators, ":object", obj, "TObject"))

OneOfValidator(c, ty, acc) ==
  LET loop == OneOfLoop(c, ty.types, acc, 1) IN
  IF loop.ok THEN VR(NoErr, loop.ev)
  ELSE VR(Composed(acc, "expected one of", loop.subs), loop.ev)

ArrayFixedValidator(c, ty, acc) ==
  LET arr == SelfOrChild(c.h, acc, ":array") IN
  IF arr = 0 \/ c.h[arr].typeName # ":array" THEN VR(ValueError(acc, "invalid array"), <<>>)
  ELSE
    LET loop == ArrayFixedLoop(c, ty.types, acc, arr, 0)
        subs == loop.subs \o ExtraIndexes(c.h[arr].children, Len(ty.types))
    IN IF IsErr(loop.thr) THEN VThrow(loop.thr, loop.ev)
       ELSE IF subs = <<>> THEN VR(NoErr, loop.ev)
       ELSE VR(Composed(acc, "expected " \o ty.label \o " with signature", subs), loop.ev)

TerminalValidator(c, ty, acc) ==
  RegistryValidator(c, c.s.validators, ty.name,
    IF c.h[acc].typeName # ty.name /\ c.h[acc].kind # "typed" THEN acc ELSE Child0(c.h, acc),
    "Terminal")

AliasValidator(c, ty, acc) ==
  IF ty.from # "" /\ Defined(Get(c.b.validators, ty.from))
  THEN RegistryValidator(c, c.b.validators, ty.from, acc, "Alias.from")
  ELSE IF acc = 0 THEN VThrow(TypeError, <<>>)
  ELSE IF ~Known(c.s, ty.to) THEN VR(ValueError(acc, "missing aliased type"), <<>>)
  ELSE RegistryValidator(c, c.s.validators, WildKey(c.s.validators, ty.to),
         IF c.h[acc].kind = "typed" \/ c.h[acc].typeName = ty.from
         THEN Child0(c.h, acc) ELSE acc,
         "Alias")

\* a Class validator that asks the validator of the caller before the arguments
ClassValidatorUserFirst(c, ty, acc) ==
  IF ty.className \notin c.s.classes THEN VR(ValueError(acc, "missing class"), <<>>)
  ELSE
    LET u == RegistryValidator(c, c.b.validators, ty.className, acc, "Class") IN
    IF ~Accepts(u) THEN u
    ELSE IF c.h[acc].children # <<>> /\ ty.args.t = "type"
    THEN After(u.ev, TypeValidator(c, ty.args, Child0(c.h, acc)))
    ELSE u

ClassValidator(c, ty, acc) ==
  IF ty.className \notin c.s.classes THEN VR(ValueError(acc, "missing class"), <<>>)
  ELSE
    LET e == IF c.h[acc].children # <<>> /\ ty.args.t = "type"
             THEN TypeValidator(c, ty.args, Child0(c.h, acc)) ELSE VOk
    IN IF ~Accepts(e) THEN e
       ELSE After(e.ev, RegistryValidator(c, c.b.validators, ty.className, acc, "Class"))

\* ty.validator(acc); acc = 0 is an undefined accessor
TypeValidator(c, ty, acc) ==
  IF ty.c = "OneOf" THEN OneOfValidator(c, ty, acc)
  ELSE IF ty.c = "Alias" THEN AliasValidator(c, ty, acc)
  ELSE IF acc = 0 THEN VThrow(TypeError, <<>>)
  ELSE CASE ty.c = "Literal" -> LiteralValidator(c, ty, acc)
         [] ty.c = "Maybe" -> MaybeValidator(c, ty, acc)
         [] ty.c = "ArrayOf" -> ArrayOfValidator(c, ty, acc)
         [] ty.c = "TObject" -> TObjectValidator(c, ty, acc)
         [] ty.c = "ArrayFixed" -> ArrayFixedValidator(c, ty, acc)
         [] ty.c = "Terminal" -> TerminalValidator(c, ty, acc)
         [] ty.c = "Class" -> ClassValidator(c, ty, acc)

----------------------------------------------------------------------------
(* Materialization: get value() and the deserializers.  The state st that is   *)
(* threaded through holds the log (ev) and the _value of every node (cache).   *)

St(ev, ch) == [ev |-> ev, cache |-> ch, open |-> {}]
\* the outcome of a deserializer or of a read of .value: the value, or the
\* exception thrown, and the state left behind
DR(v, st) == [v |-> v, thr |-> NoErr, st |-> st]
DThrow(x, st) == [v |-> Undef, thr |-> x, st |-> st]
Logged(st, e) == [st EXCEPT !.ev = Append(@, e)]
LoggedAll(st, ev) == [st EXCEPT !.ev = @ \o ev]

\* values only materialization makes
Instance(cls, args) == [t |-> "instance", cls |-> cls, e |-> args]
ProtoObject(cls, o) == [t |-> "protoObject", cls |-> cls, e |-> <<o>>]
Accessor(n) == [t |-> "accessor", node |-> n]
NaN == [t |-> "NaN"]
\* what the deserializers supplied by the caller return
Override(name) == [t |-> "override", s |-> name]

\* parseInt(v) and parseFloat(v) of a rawValue
ParseInt(v) ==
  CASE v.t = "number" -> Frac(IF v.x10 >= 0 THEN v.x10 - (v.x10 % 10)
                              ELSE 0 - ((0 - v.x10) - ((0 - v.x10) % 10)))
    [] v.t = "string" /\ v.s = "123" -> Num(123)
    [] v.t = "string" /\ v.s = "-7" -> Num(0 - 7)
    [] OTHER -> NaN
ParseFloat(v) ==
  CASE v.t = "number" -> v
    [] v.t = "string" /\ v.s = "123" -> Num(123)
    [] v.t = "string" /\ v.s = "-7" -> Num(0 - 7)
    [] OTHER -> NaN
\* BigInt(acc.text) of a string or number rawValue: a value or a SyntaxError
ToBigInt(v) ==
  CASE v.t = "number" /\ v.x10 % 10 = 0 -> BigInt(v.x10 \div 10)
    [] v.t = "string" /\ v.s = "123" -> BigInt(123)
    [] v.t = "string" /\ v.s = "-7" -> BigInt(0 - 7)
    [] OTHER -> NaN

\* the deserializers of createSchema
BuiltinDeserializer(name, h, n, st) ==
  LET raw == RawValue(h, n) IN
  CASE name = "bigint" ->
         IF raw.t = "bigint" THEN DR(raw, st)
         ELSE IF raw.t \in {"string", "number"}
         THEN IF ToBigInt(raw) = NaN THEN DThrow(ValueError(n, "cannot convert to BigInt"), st)
              ELSE DR(ToBigInt(raw), st)
         ELSE DThrow(ValueError(n, "invalid bigint value"), st)
    [] name = "undefined" -> DR(Undef, st)
    [] name = "int" -> IF raw.t = "null" THEN DR(raw, st) ELSE DR(ParseInt(raw), st)
    [] name \in {"float", "number"} ->
         IF raw.t = "null" THEN DR(Accessor(n), st) ELSE DR(ParseFloat(raw), st)

\* the invocations of a deserializer with node n that st has recorded
Invocations(st, n) == {i \in 1..Len(st.ev) : st.ev[i].op = "des" /\ st.ev[i].node = n}

\* a deserializer of the caller: one that returns a constant, one that throws, one
\* that returns undefined, one that throws the first time it is given a node
UserDeserializer(id, n, st) ==
  IF id = "throw" THEN DThrow(ValueError(n, "rejected by deserializer"), st)
  ELSE IF id = "nothing" THEN DR(Undef, st)
  ELSE IF id = "once" /\ Cardinality(Invocations(st, n)) < 2
  THEN DThrow(ValueError(n, "not yet"), st)
  ELSE DR(Override(id), st)

\* a getter that assigns _value before getValue() is known to return
SetValueEarly(st, n, r) ==
  IF IsErr(r.thr) THEN DThrow(r.thr, [r.st EXCEPT !.cache[n] = Undef, !.open = st.open])
  ELSE DR(r.v, [r.st EXCEPT !.cache[n] = r.v, !.open = st.open])

\* this._value = r, when getValue() returned r; a throw leaves _value as it was
SetValue(st, n, r) ==
  IF IsErr(r.thr) THEN DThrow(r.thr, [r.st EXCEPT !.open = st.open])
  ELSE DR(r.v, [r.st EXCEPT !.cache[n] = r.v, !.open = st.open])

\* r ?? raw
OrRaw(r, raw) == IF ~IsErr(r.thr) /\ IsNullish(r.v) THEN DR(raw, r.st) ELSE r

\* f(r.v) of a value that was read without a throw
MapResult(r, F(_)) == IF IsErr(r.thr) THEN r ELSE DR(F(r.v), r.st)

RECURSIVE ValueOf(_, _, _)
RECURSIVE GetValue(_, _, _)
RECURSIVE MapValue(_, _, _, _)
RECURSIVE ObjectValue(_, _, _, _)
RECURSIVE CallDeserializer(_, _, _, _)
RECURSIVE RegistryDeserializer(_, _, _, _, _, _)
RECURSIVE TypeDeserializer(_, _, _, _)
RECURSIVE ArrayOfMap(_, _, _, _, _)
RECURSIVE ArrayFixedMap(_, _, _, _, _)
RECURSIVE TObjectMap(_, _, _, _, _)
RECURSIVE OneOfTry(_, _, _, _, _, _)
RECURSIVE OneOfValidated(_, _, _, _, _, _, _)
RECURSIVE OneOfCatch(_, _, _, _, _, _)
RECURSIVE MetaDeserializer(_, _, _, _)
RECURSIVE MetaRefDeserializer(_, _, _, _)

\* table[key](n), the call recorded in the log
RegistryDeserializer(c, st, table, key, n, by) ==
  CallDeserializer(c, Logged(st, Event("des", key, n, by)), table[key], n)

CallDeserializer(c, st, d, n) ==
  CASE d.k = "builtin" ->
         IF n = 0 THEN DThrow(TypeError, st) ELSE BuiltinDeserializer(d.name, c.h, n, st)
    [] d.k = "user" -> UserDeserializer(d.id, n, st)
    [] d.k = "type" -> TypeDeserializer(c, st, d.ty, n)
    [] d.k = "meta" -> MetaDeserializer(c, st, d.name, n)
    [] d.k = "metaref" -> MetaRefDeserializer(c, st, d.name, n)
    [] OTHER -> DThrow(TypeError, st)

\* get value() that keeps no _value: getValue() at every read
ValueOfUncached(c, st, n) ==
  IF n \in st.open THEN DThrow(RangeError, st)
  ELSE LET r == GetValue(c, [st EXCEPT !.open = @ \cup {n}], n) IN
       IF IsErr(r.thr) THEN DThrow(r.thr, [r.st EXCEPT !.open = st.open])
       ELSE DR(r.v, [r.st EXCEPT !.open = st.open])

\* get value(): the cached _value, or getValue() and its result cached.  st.open
\* holds the nodes whose getValue() is running: a getValue() that reads the value
\* of its own node never returns, the runtime ends it with a RangeError
ValueOf(c, st, n) ==
  IF st.cache[n] # Empty THEN DR(st.cache[n], st)
  ELSE IF n \in st.open THEN DThrow(RangeError, st)
  ELSE SetValue(st, n, GetValue(c, [st EXCEPT !.open = @ \cup {n}], n))

\* this.child?.value
ChildValue(c, st, n) ==
  IF c.h[n].children = <<>> THEN DR(Undef, st) ELSE ValueOf(c, st, c.h[n].children[1])

\* acc.children[0].value
Child0Value(c, st, n) ==
  IF n = 0 \/ Child0(c.h, n) = 0 THEN DThrow(TypeError, st)
  ELSE ValueOf(c, st, Child0(c.h, n))

\* children.map((c) => c.value), from index i on
MapValue(c, st, ids, i) ==
  IF i > Len(ids) THEN DR(<<>>, st)
  ELSE LET r == ValueOf(c, st, ids[i]) IN
       IF IsErr(r.thr) THEN r
       ELSE LET rest == MapValue(c, r.st, ids, i + 1) IN
            IF IsErr(rest.thr) THEN rest ELSE DR(<<r.v>> \o rest.v, rest.st)

\* ObjectNode.getValue: children.reduce((p, n) => Object.assign(p, {[n.key]: n.value}))
ObjectValue(c, st, pairs, acc) ==
  IF pairs = <<>> THEN DR(acc, st)
  ELSE LET r == ValueOf(c, st, pairs[1]) IN
       IF IsErr(r.thr) THEN r
       ELSE ObjectValue(c, r.st, Tail(pairs), ObjSet(acc, c.h[pairs[1]].key, r.v))

PrimitiveGetValue(c, st, n) ==
  LET key == WildKey(c.s.deserializers, c.h[n].typeName) IN
  IF Defined(Get(c.s.deserializers, key))
  THEN OrRaw(RegistryDeserializer(c, st, c.s.deserializers, key, n, "Primitive"),
             c.h[n].raw)
  ELSE DR(c.h[n].raw, st)

\* getValue() of a Typed node that asks the wildcard before it reads its child
TypedGetValueWildcard(c, st, n) ==
  LET name == c.h[n].typeName
      key == WildKey(c.s.deserializers, name) IN
  IF Defined(Get(c.s.deserializers, key))
  THEN RegistryDeserializer(c, st, c.s.deserializers, key, n, "Typed")
  ELSE IF In(name, c.s.deserializers) \/ In(name, c.s.validators) \/ StartsWithColon(name)
  THEN ChildValue(c, st, n)
  ELSE DThrow(ValueError(n, "unknown type"), st)

TypedGetValue(c, st, n) ==
  LET name == c.h[n].typeName IN
  IF In(name, c.s.deserializers) \/ In(name, c.s.validators)
  THEN IF Defined(Get(c.s.deserializers, name))
       THEN RegistryDeserializer(c, st, c.s.deserializers, name, n, "Typed")
       ELSE ChildValue(c, st, n)
  ELSE IF In("*", c.s.deserializers)
  THEN IF Defined(c.s.deserializers["*"])
       THEN RegistryDeserializer(c, st, c.s.deserializers, "*", n, "Typed")
       ELSE DThrow(TypeError, st)
  ELSE IF StartsWithColon(name) THEN ChildValue(c, st, n)
  ELSE DThrow(ValueError(n, "unknown type"), st)

ProtoGetValue(c, st, n) ==
  IF c.h[n].typeName \in c.s.prototypes
  THEN MapResult(ChildValue(c, st, n),
                 LAMBDA v: ProtoObject(c.h[n].typeName,
                                       IF IsNullish(v) THEN Obj(<<>>, <<>>) ELSE v))
  ELSE DThrow(ValueError(n, "unknown prototype"), st)

CtorGetValue(c, st, n) ==
  IF c.h[n].typeName \in c.s.classes
  THEN MapResult(MapValue(c, st, c.h[Child0(c.h, n)].children, 1),
                 LAMBDA v: Instance(c.h[n].typeName, v))
  ELSE DThrow(ValueError(n, "unknown class"), st)

\* getValue() of each node class
GetValue(c, st, n) ==
  CASE c.h[n].kind = "primitive" -> PrimitiveGetValue(c, st, n)
    [] c.h[n].kind = "typed" -> TypedGetValue(c, st, n)
    [] c.h[n].kind = "pair" -> ChildValue(c, st, n)
    [] c.h[n].kind = "array" -> MapResult(MapValue(c, st, c.h[n].children, 1), Arr)
    [] c.h[n].kind = "object" -> ObjectValue(c, st, c.h[n].children, Obj(<<>>, <<>>))
    [] c.h[n].kind = "proto" -> ProtoGetValue(c, st, n)
    [] c.h[n].kind = "class" -> CtorGetValue(c, st, n)

\* ArrayOf.deserializer: arr.children.map((v) => this.inner.deserializer(v))
ArrayOfMap(c, st, inner, ids, i) ==
  IF i > Len(ids) THEN DR(<<>>, st)
  ELSE LET r == TypeDeserializer(c, st, inner, ids[i]) IN
       IF IsErr(r.thr) THEN r
       ELSE LET rest == ArrayOfMap(c, r.st, inner, ids, i + 1) IN
            IF IsErr(rest.thr) THEN rest ELSE DR(<<r.v>> \o rest.v, rest.st)

\* ArrayFixed.deserializer: a Terminal position reads v.value, the others
\* call types[i].deserializer(v); there is no types[i] past the declared ones
ArrayFixedMap(c, st, types, ids, i) ==
  IF i > Len(ids) THEN DR(<<>>, st)
  ELSE LET r == IF i > Len(types) THEN DThrow(TypeError, st)
                ELSE IF types[i].c = "Terminal" THEN ValueOf(c, st, ids[i])
                ELSE TypeDeserializer(c, st, types[i], ids[i])
       IN IF IsErr(r.thr) THEN r
          ELSE LET rest == ArrayFixedMap(c, r.st, types, ids, i + 1) IN
               IF IsErr(rest.thr) THEN rest ELSE DR(<<r.v>> \o rest.v, rest.st)

\* TObject.deserializer: every pair kv gives [kv.key, deserializers[kv.key](kv.children[0])]
\* where deserializers[k] is acc.schema.deserializers[k] ?? fields[k].deserializer
TObjectMap(c, st, fields, pairs, acc) ==
  IF pairs = <<>> THEN DR(acc, st)
  ELSE
    LET key == c.h[pairs[1]].key
        v == Child0(c.h, pairs[1])
        r == IF ~ObjHas(fields, key) THEN DThrow(TypeError, st)
             ELSE IF Defined(Get(c.s.deserializers, key))
             THEN RegistryDeserializer(c, st, c.s.deserializers, key, v, "TObject")
             ELSE TypeDeserializer(c, st, ObjGet(fields, key), v)
    IN IF IsErr(r.thr) THEN r
       ELSE TObjectMap(c, r.st, fields, Tail(pairs), ObjSet(acc, key, r.v))

\* OneOf.deserializer: the first alternative whose validator returns no error
\* on child and whose deserializer does not throw gives the value
OneOfTry(c, st, types, acc, child, i) ==
  IF i > Len(types) THEN DThrow(ValueError(acc, "could not deserialize value"), st)
  ELSE OneOfValidated(c, st, types, acc, child, i, TypeValidator(c, types[i], child))

\* errors.push(e) of an exception e caught at alternative i, ahead of the errors
\* of the later alternatives: a ValueError as it is, another Error as
\* new ValueError(acc, e.message); rest is what the later alternatives give
Caught(acc, i, e, rest) ==
  IF IsErr(rest.thr)
  THEN [rest EXCEPT !.thr.subs =
          <<Sub(IdxKey[i], IF e.m \in {"TypeError", "RangeError"} THEN ValueError(acc, e.m)
                           ELSE e)>> \o @]
  ELSE rest

\* if (!type.validator(child)) { try { return type.deserializer(child) } catch { continue } }
OneOfValidated(c, st, types, acc, child, i, v) ==
  IF IsErr(v.thr)
  THEN Caught(acc, i, v.thr,
              OneOfTry(c, LoggedAll(st, CalledBy("OneOf.deserializer", v.ev)), types, acc,
                       child, i + 1))
  ELSE IF ~Accepts(v)
  THEN OneOfTry(c, LoggedAll(st, CalledBy("OneOf.deserializer", v.ev)), types, acc, child,
                i + 1)
  ELSE OneOfCatch(c, types, acc, child, i,
                  TypeDeserializer(c, LoggedAll(st, CalledBy("OneOf.deserializer", v.ev)),
                                   types[i], child))

\* the alternative's exception thrown on instead of caught
OneOfRethrow(c, types, acc, child, i, d) == d

OneOfCatch(c, types, acc, child, i, d) ==
  IF IsErr(d.thr) THEN Caught(acc, i, d.thr, OneOfTry(c, d.st, types, acc, child, i + 1))
  ELSE d

\* the meta-schema's deserializers table, a function of baseSchema (below)
MetaDeserializerKeys ==
  {"schema", ":undefined", "object", "proto", "class", "maybe", "oneOf", "arrayOf", "*"}
MetaDeserializers(b) ==
  Assign([k \in DOMAIN b.deserializers |-> MetaRefD(k)],
         [k \in MetaDeserializerKeys |-> MetaD(k)])

\* Literal captures the schema it was made under, the meta-schema
LiteralDeserializer(c, st, ty, acc) ==
  IF In(ty.type, MetaDeserializers(c.b))
  THEN RegistryDeserializer(c, st, MetaDeserializers(c.b), ty.type, acc, "Literal")
  ELSE IF acc = 0 THEN DThrow(TypeError, st) ELSE ValueOf(c, st, acc)

MaybeDeserializer(c, st, ty, acc) ==
  IF acc = 0 THEN DThrow(TypeError, st)
  ELSE IF ~MaybeKnows(c.s, c.h[acc].typeName) THEN DThrow(ValueError(acc, "unknown type"), st)
  ELSE IF IsNullish(RawValue(c.h, acc)) THEN DR(RawValue(c.h, acc), st)
  ELSE IF c.h[acc].kind = "typed" THEN Child0Value(c, st, acc)
  ELSE ValueOf(c, st, acc)

ArrayOfDeserializer(c, st, ty, acc) ==
  IF acc = 0 THEN DThrow(TypeError, st)
  ELSE LET arr == IF c.h[acc].kind = "array" THEN acc ELSE Child0(c.h, acc) IN
       IF arr = 0 THEN DThrow(TypeError, st)
       ELSE MapResult(ArrayOfMap(c, st, ty.inner, c.h[arr].children, 1), Arr)

TObjectDeserializer(c, st, ty, acc) ==
  IF acc = 0 THEN DThrow(TypeError, st)
  ELSE IF ty.fields.t = "null" THEN ValueOf(c, st, acc)
  ELSE LET obj == SelfOrChild(c.h, acc, ":object") IN
       IF obj = 0 THEN DThrow(TypeError, st)
       ELSE TObjectMap(c, st, ty.fields, c.h[obj].children, Obj(<<>>, <<>>))

OneOfDeserializer(c, st, ty, acc) ==
  IF acc = 0 THEN DThrow(TypeError, st)
  ELSE OneOfTry(c, st, ty.types, acc,
                IF c.h[acc].kind = "typed" THEN Child0(c.h, acc) ELSE acc, 1)

ArrayFixedDeserializer(c, st, ty, acc) ==
  IF acc = 0 THEN DThrow(TypeError, st)
  ELSE LET arr == SelfOrChild(c.h, acc, ":array") IN
       IF arr = 0 THEN DThrow(TypeError, st)
       ELSE MapResult(ArrayFixedMap(c, st, ty.types, c.h[arr].children, 1), Arr)

TerminalDeserializer(c, st, ty, acc) ==
  IF acc = 0 THEN DThrow(TypeError, st)
  ELSE IF c.h[acc].kind = "primitive" THEN ValueOf(c, st, acc)
  ELSE Child0Value(c, st, acc)

AliasDeserializer(c, st, ty, acc) ==
  IF ty.from # "" /\ Defined(Get(c.b.deserializers, ty.from))
  THEN RegistryDeserializer(c, st, c.b.deserializers, ty.from, acc, "Alias.from")
  ELSE IF acc = 0 THEN DThrow(TypeError, st)
  ELSE
    LET key == WildKey(c.s.deserializers, ty.to) IN
    IF Defined(Get(c.s.deserializers, key))
    THEN RegistryDeserializer(c, st, c.s.deserializers, key,
           IF c.h[acc].typeName = ty.from THEN Child0(c.h, acc) ELSE acc, "Alias")
    ELSE IF c.h[acc].kind = "typed" THEN Child0Value(c, st, acc)
    ELSE ValueOf(c, st, acc)

ClassDeserializer(c, st, ty, acc) == Child0Value(c, st, acc)

\* ty.deserializer(acc)
TypeDeserializer(c, st, ty, acc) ==
  CASE ty.c = "Literal" -> LiteralDeserializer(c, st, ty, acc)
    [] ty.c = "Maybe" -> MaybeDeserializer(c, st, ty, acc)
    [] ty.c = "ArrayOf" -> ArrayOfDeserializer(c, st, ty, acc)
    [] ty.c = "TObject" -> TObjectDeserializer(c, st, ty, acc)
    [] ty.c = "OneOf" -> OneOfDeserializer(c, st, ty, acc)
    [] ty.c = "ArrayFixed" -> ArrayFixedDeserializer(c, st, ty, acc)
    [] ty.c = "Terminal" -> TerminalDeserializer(c, st, ty, acc)
    [] ty.c = "Alias" -> AliasDeserializer(c, st, ty, acc)
    [] ty.c = "Class" -> ClassDeserializer(c, st, ty, acc)

----------------------------------------------------------------------------
(* The bootstrap: schemaValidators, createSchemaOfSchema *)

\* getNamespace(acc): the key of the outermost Pair on the way to the root ("" = undefined)
RECURSIVE getNamespace(_, _, _)
getNamespace(h, n, lastPair) ==
  IF n = 0 \/ h[n].typeName = ":root" THEN (IF lastPair = 0 THEN "" ELSE h[lastPair].key)
  ELSE getNamespace(h, h[n].parent, IF h[n].typeName = ":pair" THEN n ELSE lastPair)

\* acc.parent?.typeName ("" = undefined)
ParentTypeName(h, n) == IF h[n].parent = 0 THEN "" ELSE h[h[n].parent].typeName
\* acc.parent?.key ?? null ("" = null)
ParentKey(h, n) == IF h[n].parent = 0 THEN "" ELSE h[h[n].parent].key
\* acc.children[0].typeName, "" when there is no child (the source then throws)
Child0TypeName(h, n) == IF Child0(h, n) = 0 THEN "" ELSE h[Child0(h, n)].typeName

\* acc.ancestors.filter((a) => !a.typeName.startsWith(":"))
NamedAncestors(h, n) == SelectSeq(Ancestors(h, n), LAMBDA a: ~StartsWithColon(h[a].typeName))

\* /class|proto|object/.test(typeName): the names of the model that contain
\* one of the three words
MatchesClassProtoObject(name) == name \in {"class", "proto", "object", ":object", "objectY"}

\* the placement rule shared by the class and proto validators
PlacementValidator(h, acc, allowed) ==
  LET anc == NamedAncestors(h, acc) IN
  IF Len(anc) > 2 \/ (Len(anc) = 2 /\ h[anc[2]].typeName # "oneOf")
  THEN ValueError(acc, "may only be defined at the schema level or in a schema-level oneOf")
  ELSE IF Len(anc) = 2
          /\ \E m \in SeqToSet(h[Child0(h, anc[2])].children) :
               ~MatchesClassProtoObject(h[m].typeName)
  THEN ValueError(ParentOr(h, acc), "unexpected member in oneOf [class, ...]")
  ELSE IF StartsWithColon(getNamespace(h, acc, 0))
  THEN ValueError(ParentOr(h, acc), "invalid class name")
  ELSE IF Child0TypeName(h, acc) \in {allowed, ":undefined"} THEN NoErr
  ELSE ValueError(acc, "only accepts an optional " \o allowed)

\* schemaValidators(baseSchema)[name](acc)
SchemaValidator(c, name, acc) ==
  LET h == c.h IN
  CASE name = ":array" ->
         IF ParentTypeName(h, acc) \in {"oneOf", "arrayOf", "class", "schema"} THEN NoErr
         ELSE ValueError(acc, "unexpected array literal")
    [] name = ":object" ->
         IF ParentTypeName(h, acc) \in {"class", "proto", "schema", "object", "array"}
         THEN NoErr
         ELSE ValueError(acc, IF ParentTypeName(h, acc) = ":document"
                              THEN "document root must be of type schema"
                              ELSE "unexpected object literal")
    [] name = ":document" ->
         IF Len(h[acc].children) = 1 /\ Child0TypeName(h, acc) = "schema" THEN NoErr
         ELSE ValueError(acc, "document root must be of type schema")
    [] name = "schema" ->
         IF ParentTypeName(h, acc) # ":document"
         THEN ValueError(acc, "nested schemas are not supported")
         ELSE IF Child0TypeName(h, acc) = ":object" THEN NoErr
         ELSE ValueError(acc, "invalid schema: expected an object")
    [] name = "maybe" ->
         IF Child0TypeName(h, acc) # ":undefined" /\ h[acc].typeName # ":null" THEN NoErr
         ELSE ValueError(acc, "missing type argument")
    [] name = "oneOf" ->
         IF Child0TypeName(h, acc) = ":array" THEN NoErr
         ELSE ValueError(acc, "oneOf only accepts an array")
    [] name = "arrayOf" ->
         IF Child0TypeName(h, acc) # ":object" THEN NoErr
         ELSE ValueError(acc, "arrayOf accepts either one type or an array of types")
    [] name = "class" -> PlacementValidator(h, acc, ":array")
    [] name = "proto" -> PlacementValidator(h, acc, ":object")
    [] name = "object" ->
         IF Child0TypeName(h, acc) \in {":object", ":undefined"} THEN NoErr
         ELSE ValueError(acc, "object only accepts an optional key-value mapping")
    [] name = "*" ->
         IF /\ ~StartsWithColon(h[acc].typeName)
            /\ ~In(h[acc].typeName, c.b.deserializers)
            /\ h[acc].typeName \notin c.b.classes
            /\ h[acc].typeName \notin c.b.prototypes
            /\ h[acc].typeName \notin c.s.meta.knownTypes
         THEN ValueError(ParentOr(h, acc), "unknown type")
         ELSE NoErr

SchemaValidatorKeys ==
  {":array", ":object", ":document", "schema", "maybe", "oneOf", "arrayOf", "class",
   "proto", "object", "*"}

\* schemaValidators without the entry `schema`
MetaValidatorNoSchemaEntry(c, name, acc) ==
  IF acc = 0 \/ (name \in {"schema", "maybe", "oneOf", "arrayOf", "class", "proto", "object"}
                 /\ Child0(c.h, acc) = 0)
  THEN VThrow(TypeError, <<>>)
  ELSE IF name = "schema" THEN VR(NoErr, <<>>)
  ELSE VR(SchemaValidator(c, name, acc), <<>>)

\* every schemaValidators entry reads acc.children[0] or acc.parent of a defined acc
MetaValidator(c, name, acc) ==
  IF acc = 0 \/ (name \in {"schema", "maybe", "oneOf", "arrayOf", "class", "proto", "object"}
                 /\ Child0(c.h, acc) = 0)
  THEN VThrow(TypeError, <<>>)
  ELSE VR(SchemaValidator(c, name, acc), <<>>)

\* the deserializer createSchemaOfSchema puts under every key k of baseSchema.deserializers
MetaRefDeserializer(c, st, k, acc) ==
  IF acc = 0 THEN DThrow(TypeError, st)
  ELSE
    LET h == c.h
        p == h[acc].parent
    IN IF /\ p # 0 /\ h[p].kind = "pair"
          /\ h[p].parent # 0 /\ h[h[p].parent].parent # 0
          /\ h[h[h[p].parent].parent].typeName = "schema"
       THEN DR(Alias(h[p].key, h[acc].typeName), st)
       ELSE IF h[acc].typeName \in c.s.meta.knownTypes
       THEN DR(Alias("", h[acc].typeName), st)
       ELSE DR(Terminal(k), st)

\* a schema clause whose generated entries replace those of the base schema
SchemaDeserializerGenerated(b, value) ==
  NewSchema(
    b.classes,
    b.prototypes,
    Assign(b.deserializers, [k \in SeqToSet(value.ks) |-> TypeD(ObjGet(value, k))]),
    Assign(b.validators, [k \in SeqToSet(value.ks) |-> TypeD(ObjGet(value, k))]),
    Assign(b.preprocessors, [k \in SeqToSet(value.ks) |-> Get(b.preprocessors, k)]),
    [knownTypes |-> SeqToSet(value.ks), schema |-> value])

\* the deserializer of a whole schema clause: the five tables of the new schema
SchemaDeserializer(b, value) ==
  NewSchema(
    b.classes,
    b.prototypes,
    Assign(b.deserializers,
           [k \in SeqToSet(value.ks) |->
              Coalesce(Coalesce(Get(b.deserializers, k), Get(b.deserializers, "*")),
                       TypeD(ObjGet(value, k)))]),
    Assign([k \in SeqToSet(value.ks) |->
              Coalesce(Coalesce(Get(b.validators, k), Get(b.validators, "*")),
                       TypeD(ObjGet(value, k)))],
           b.validators),
    Assign(b.preprocessors, [k \in SeqToSet(value.ks) |-> Get(b.preprocessors, k)]),
    [knownTypes |-> SeqToSet(value.ks), schema |-> value])

\* the fixed deserializers of createSchemaOfSchema
MetaDeserializer(c, st, name, acc) ==
  IF acc = 0 THEN DThrow(TypeError, st)
  ELSE IF name = ":undefined" THEN DR(Terminal("undefined"), st)
  ELSE IF name = "*" /\ c.h[acc].kind = "primitive"
  THEN DR(Literal(c.h[acc].typeName, c.h[acc].raw), st)
  ELSE
    LET r == Child0Value(c, st, acc) IN
    IF IsErr(r.thr) THEN r
    ELSE
      CASE name = "schema" ->
             IF r.v.t = "object" THEN DR(SchemaDeserializer(c.b, r.v), r.st)
             ELSE DThrow(TypeError, r.st)
        [] name \in {"object", "proto"} -> DR(TObject(r.v), r.st)
        [] name = "class" ->
             DR(Class(getNamespace(c.h, acc, 0),
                      IF Child0TypeName(c.h, acc) # ":undefined"
                      THEN ArrayFixed(r.v.e, "arguments") ELSE Undef), r.st)
        [] name = "maybe" -> DR(Maybe(r.v), r.st)
        [] name = "oneOf" -> DR(OneOf(r.v.e, getNamespace(c.h, acc, 0)), r.st)
        [] name = "arrayOf" ->
             DR(IF IsArray(r.v) THEN ArrayFixed(r.v.e, "array") ELSE ArrayOf(r.v), r.st)
        [] name = "*" -> DR(Alias(ParentKey(c.h, acc), c.h[acc].typeName), r.st)

\* createSchemaOfSchema(partialSchema): the meta-schema over baseSchema b
createSchemaOfSchema(b) ==
  NewSchema(
    b.classes,
    b.prototypes,
    MetaDeserializers(b),
    Assign(Assign(b.validators,
                  [k \in {x \in DOMAIN b.validators : ~StartsWithColon(x)} |-> UndefD]),
           [k \in SchemaValidatorKeys |-> MetaD(k)]),
    [k \in {":document"} |-> MetaD(":document")],
    NoMeta)

----------------------------------------------------------------------------
(* The two eager traversals of exitRoot: preprocess() and validate() *)

\* what a preprocessor does to acc.schema: the ':document' hook of the meta-schema
\* adds the keys of an object rawValue to meta.knownTypes; the caller's hooks do nothing
CallPreprocessor(h, s, d, n) ==
  IF d.k = "meta" /\ RawValue(h, n).t = "object"
  THEN [s EXCEPT !.meta.knownTypes = @ \cup SeqToSet(RawValue(h, n).ks)]
  ELSE s

PR(s, ev) == [s |-> s, ev |-> ev]

\* if (this.schema.preprocessors[this.typeName]) this.schema.preprocessors[this.typeName](this)
OwnPreprocess(h, p, n) ==
  LET d == Get(p.s.preprocessors, h[n].typeName) IN
  IF Defined(d)
  THEN PR(CallPreprocessor(h, p.s, d, n),
          Append(p.ev, Event("pre", h[n].typeName, n, h[n].kind)))
  ELSE p

RECURSIVE Preprocess(_, _, _)
RECURSIVE PreprocessAll(_, _, _, _)
\* preprocess() with the preprocessor of a Typed node after its child
PreprocessChildFirst(h, p, n) ==
  CASE h[n].kind = "primitive" -> OwnPreprocess(h, p, n)
    [] h[n].kind = "typed" ->
         Eval(PreprocessAll(h, p, h[n].children, 1), LAMBDA q: OwnPreprocess(h, q, n))
    [] OTHER -> PreprocessAll(h, p, h[n].children, 1)

\* n.preprocess() of each node class
Preprocess(h, p, n) ==
  CASE h[n].kind = "primitive" -> OwnPreprocess(h, p, n)
    [] h[n].kind = "typed" ->
         Eval(OwnPreprocess(h, p, n), LAMBDA q: PreprocessAll(h, q, h[n].children, 1))
    [] OTHER -> PreprocessAll(h, p, h[n].children, 1)

PreprocessAll(h, p, ids, i) ==
  IF i > Len(ids) THEN p
  ELSE Eval(Preprocess(h, p, ids[i]), LAMBDA q: PreprocessAll(h, q, ids, i + 1))

\* the returned error dropped instead of thrown
ReturnedIgnored(r) == r

\* if (e) throw e
ThrowReturned(r) == IF IsErr(r.thr) \/ ~IsErr(r.e) THEN r ELSE VThrow(r.e, r.ev)

\* ASTNode.validate without the unknown-type test
ASTNodeValidateUntested(c, n) ==
  ThrowReturned(RegistryValidator(c, c.s.validators,
                                  WildKey(c.s.validators, c.h[n].typeName), n, c.h[n].kind))

\* ASTNode.validate: the unknown-type test, then the validator of the node
ASTNodeValidate(c, n) ==
  LET name == c.h[n].typeName IN
  IF ~(StartsWithColon(name) \/ In("*", c.s.validators) \/ Known(c.s, name))
  THEN VThrow(ValueError(n, "unknown type"), <<Event("unknown", name, n, c.h[n].kind)>>)
  ELSE ThrowReturned(RegistryValidator(c, c.s.validators,
                                       WildKey(c.s.validators, name), n, c.h[n].kind))

RECURSIVE Validate(_, _)
RECURSIVE ValidateAll(_, _, _)
\* validate() with the class and the prototype looked up in every table
ValidateAnyTable(c, n) ==
  IF c.h[n].kind = "proto" /\ ~Known(c.s, c.h[n].typeName)
  THEN VThrow(ValueError(n, "unknown prototype"), <<>>)
  ELSE IF c.h[n].kind = "class" /\ ~Known(c.s, c.h[n].typeName)
  THEN VThrow(ValueError(n, "unknown class"), <<>>)
  ELSE LET r == ValidateAll(c, c.h[n].children, 1) IN
       IF IsErr(r.thr) THEN r ELSE After(r.ev, ASTNodeValidate(c, n))

\* validate() with every test of the node after the children
ValidateChildrenFirst(c, n) ==
  LET r == ValidateAll(c, c.h[n].children, 1) IN
  IF IsErr(r.thr) THEN r
  ELSE IF c.h[n].kind = "proto" /\ c.h[n].typeName \notin c.s.prototypes
  THEN VThrow(ValueError(n, "unknown prototype"), r.ev)
  ELSE IF c.h[n].kind = "class" /\ c.h[n].typeName \notin c.s.classes
  THEN VThrow(ValueError(n, "unknown class"), r.ev)
  ELSE After(r.ev, ASTNodeValidate(c, n))

\* n.validate() of each node class: the children first, then the node
Validate(c, n) ==
  IF c.h[n].kind = "proto" /\ c.h[n].typeName \notin c.s.prototypes
  THEN VThrow(ValueError(n, "unknown prototype"), <<>>)
  ELSE IF c.h[n].kind = "class" /\ c.h[n].typeName \notin c.s.classes
  THEN VThrow(ValueError(n, "unknown class"), <<>>)
  ELSE LET r == ValidateAll(c, c.h[n].children, 1) IN
       IF IsErr(r.thr) THEN r ELSE After(r.ev, ASTNodeValidate(c, n))

ValidateAll(c, ids, i) ==
  IF i > Len(ids) THEN VOk
  ELSE LET r == Validate(c, ids[i]) IN
       IF IsErr(r.thr) THEN r ELSE After(r.ev, ValidateAll(c, ids, i + 1))

NoCache(h) == [i \in 1..Len(h) |-> Empty]

----------------------------------------------------------------------------
(* What the caller supplies *)

NoOverrides == Overrides({}, {}, EmptyTable, EmptyTable)

\* the overrides of createSchema, and the preprocessors the caller sets on the result
OverrideSet ==
  { [o |-> NoOverrides, pre |-> EmptyTable],
    [o |-> Overrides({"Test"}, {"Point"}, EmptyTable, EmptyTable),
     pre |-> [k \in {":number", "X"} |-> UserD("noop")]],
    [o |-> Overrides({}, {}, [k \in {"X"} |-> UserD("ovX")], [k \in {"X"} |-> UserD("accept")]),
     pre |-> EmptyTable],
    [o |-> Overrides({}, {}, [k \in {"Y"} |-> UserD("throw")], [k \in {"Y"} |-> UserD("reject")]),
     pre |-> [k \in {"Y"} |-> UserD("noop")]],
    [o |-> Overrides({}, {}, EmptyTable, [k \in {"*"} |-> UserD("accept")]),
     pre |-> EmptyTable] }

\* schema documents: schema { X: ..., Y: ... }
SchemaDoc(pairs) == TTag1("schema", TObj(pairs))
SchemaDocs ==
  { SchemaDoc(<<TPair("X", TTag("int")), TPair("Y", TTag("string"))>>),
    SchemaDoc(<<TPair("X", TTag1("oneOf", TArr(<<TTag("int"), TTag("string")>>))),
                TPair("Y", TTag1("arrayOf", TTag("X")))>>),
    SchemaDoc(<<TPair("X", TTag1("maybe", TTag("Y"))),
                TPair("Y", TTag1("object", TObj(<<TPair("a", TTag("int"))>>)))>>),
    SchemaDoc(<<TPair("Test", TTag1("class", TArr(<<TTag("int")>>))), TPair("Y", TNum(1))>>),
    SchemaDoc(<<TPair("X", TTag("nosuch"))>>),
    SchemaDoc(<<TPair("X", TTag1("oneOf",
                             TArr(<<TTag1("arrayOf", TArr(<<TTag("Y"), TTag("Z")>>)),
                                    TTag1("arrayOf", TArr(<<TTag("Y"), TTag("number")>>))>>))),
                TPair("Y", TTag("int")),
                TPair("Z", TTag("bigint"))>>),
    TObj(<<TPair("X", TTag("int"))>>),
    SchemaDoc(<<TPair("X", TTag1("oneOf", TArr(<<TTag("Z"), TTag("Y")>>))),
                TPair("Y", TTag1("object", TObj(<<TPair("a", TTag("X"))>>))),
                TPair("Z", TTag("bigint"))>>),
    SchemaDoc(<<TPair("X", SchemaDoc(<<TPair("Y", TTag("int"))>>))>>),
    SchemaDoc(<<TPair("X", SchemaDoc(<<TPair("Y", TTag("class"))>>))>>),
    SchemaDoc(<<TPair("X", TTag("nosuch")), TPair("Y", TTag("schema"))>>),
    SchemaDoc(<<TPair("X", TTag1("oneOf", TArr(<<TTag("int"), SchemaDoc(<<>>)>>)))>>),
    TTag1("schema", SchemaDoc(<<TPair("X", TTag("int"))>>)),
    TArr(<<SchemaDoc(<<TPair("X", TTag("int"))>>)>>),
    TTag1("schema", TArr(<<TTag("int")>>)),
    TTag1("schema", TNum(1)),
    TTag("schema"),
    TTag1("int", TObj(<<TPair("X", TTag("int"))>>)),
    SchemaDoc(<<TPair("Test", TTag1("oneOf", TArr(<<TTag("class"), TTag("proto"),
                                                     TTag("object")>>)))>>),
    SchemaDoc(<<TPair("Test", TTag1("oneOf", TArr(<<TTag("class"), TTag("objectY")>>))),
                TPair("objectY", TTag("int"))>>),
    SchemaDoc(<<TPair("Test", TTag1("oneOf", TArr(<<TTag("class"), TTag("int")>>)))>>),
    SchemaDoc(<<TPair("Point", TTag1("oneOf", TArr(<<TTag("int"), TTag("proto")>>)))>>),
    SchemaDoc(<<TPair("Test", TTag1("arrayOf", TTag("class")))>>),
    SchemaDoc(<<TPair("Point", TTag1("maybe", TTag("proto")))>>),
    SchemaDoc(<<TPair("Test", TTag1("oneOf",
                               TArr(<<TTag1("oneOf", TArr(<<TTag("class")>>))>>)))>>),
    SchemaDoc(<<TPair("X", TTag1("object", TObj(<<TPair("a", TTag("class"))>>)))>>),
    SchemaDoc(<<TPair("Test", TArr(<<TTag("class")>>))>>),
    SchemaDoc(<<TPair(":document", TTag("class"))>>),
    SchemaDoc(<<TPair(":document", TTag1("oneOf", TArr(<<TTag("proto")>>)))>>),
    SchemaDoc(<<TPair("Point", TTag("proto")), TPair("Test", TTag("class"))>>) }

\* data documents
Docs ==
  { TNum(1),
    TTag1("X", TNum(1)),
    TTag1("X", TStr("a")),
    TTag1("Y", TStr("a")),
    TTag1("Y", TArr(<<TNum(1), TStr("a")>>)),
    TTag1("X", TObj(<<TPair("a", TNum(1))>>)),
    TTag1("unknown", TNum(0)),
    TArr(<<TTag1("X", TNum(1)), TTag1("unknown", TNum(0)), TTag1("Y", TStr("a"))>>),
    TObj(<<TPair("a", TTag1("int", TFrac(15))), TPair("b", TTag1("X", TNum(2)))>>),
    TArr(<<TTag1("int", TNum(1)), TTag1("bigint", TStr("123")), TTag1("Y", TNum(1))>>),
    TCtor("Test", <<TNum(1)>>),
    TCtor("Nope", <<>>),
    TProto("Point", TObj(<<TPair("x", TNum(1))>>)),
    TCtor("X", <<TNum(1)>>),
    TCtor("Point", <<TNum(1)>>),
    TCtor("Uint8Array", <<TArr(<<TNum(1)>>)>>),
    TProto("Test", TObj(<<>>)),
    TProto("object", TObj(<<>>)),
    TProto("Uint8Array", TObj(<<TPair("0", TNum(1))>>)),
    TArr(<<TStr("a"), TCtor("Nope", <<TTag1("unknown", TNum(0))>>)>>),
    TTag1("X", TArr(<<TTag1("int", TNum(1)), TFrac(15)>>)),
    TTag1("X", TArr(<<TTag1("int", TNum(1)), TNum(2)>>)),
    TTag1("X", TFrac(15)),
    TTag1("X", TObj(<<TPair("a", TFrac(15))>>)),
    TTag1("Y", TObj(<<TPair("a", TStr("a")), TPair("b", TNum(1))>>)),
    TTag("X") }

----------------------------------------------------------------------------
(* The entry points: parse and parseSchema, one action per step of the pipeline *)

Init ==
  /\ pc = "init"
  /\ call = "none"
  /\ base = NewSchema({}, {}, EmptyTable, EmptyTable, EmptyTable, NoMeta)
  /\ active = NewSchema({}, {}, EmptyTable, EmptyTable, EmptyTable, NoMeta)
  /\ heap = <<>>
  /\ root = 0
  /\ log = <<>>
  /\ cache = <<>>
  /\ outcome = Empty
  /\ applied = Empty
  /\ passed = NewSchema({}, {}, EmptyTable, EmptyTable, EmptyTable, NoMeta)

\* the caller makes its schema: createSchema(overrides), then its preprocessors
CreateSchema(x) ==
  /\ pc = "init"
  /\ base' = [createSchema(x.o) EXCEPT !.preprocessors = x.pre]
  /\ active' = [createSchema(x.o) EXCEPT !.preprocessors = x.pre]
  /\ passed' = [createSchema(x.o) EXCEPT !.preprocessors = x.pre]
  /\ pc' = "ready"
  /\ UNCHANGED <<call, heap, root, log, cache, outcome, applied>>

\* the walk of the document up to exitRoot: the tree stands, nothing has run
Walk(doc, schema, entry) ==
  /\ pc = "ready"
  /\ call = "none"
  /\ call' = entry
  /\ active' = schema
  /\ passed' = IF entry = "parseSchema" THEN base ELSE schema
  /\ heap' = Build(doc).heap
  /\ root' = Build(doc).id
  /\ cache' = NoCache(Build(doc).heap)
  /\ log' = <<>>
  /\ outcome' = Empty
  /\ pc' = "built"
  /\ UNCHANGED <<base, applied>>

\* parseSchema(document, base): parse under createSchemaOfSchema(base)
StartParseSchema(doc) == Walk(doc, createSchemaOfSchema(base), "parseSchema")

\* parse(document, schema)
StartParse(doc) == Walk(doc, active, "parse")

\* exitRoot: this.root.preprocess()
PreprocessRoot ==
  /\ pc = "built"
  /\ \E p \in {Preprocess(heap, PR(active, log), root)} :
       /\ active' = p.s
       \* Object.assign(this.meta, schema?.meta): the Set under meta.knownTypes of
       \* activeSchema is the Set of the schema parse was called with
       /\ passed' = IF call = "parse"
                    THEN [passed EXCEPT !.meta.knownTypes = p.s.meta.knownTypes]
                    ELSE passed
       /\ log' = p.ev
  /\ pc' = "preprocessed"
  /\ UNCHANGED <<call, base, heap, root, cache, outcome, applied>>

\* exitRoot without the throw of root.validate(): the walk goes on to the value
ValidateRootUnchecked ==
  /\ pc = "preprocessed"
  /\ \E r \in {Validate(Ctx(heap, active, base), root)} : log' = log \o r.ev
  /\ pc' = "validated"
  /\ UNCHANGED <<call, base, active, heap, root, cache, outcome, applied, passed>>

\* exitRoot: this.root.validate()
ValidateRoot ==
  /\ pc = "preprocessed"
  /\ \E r \in {Validate(Ctx(heap, active, base), root)} :
       /\ log' = log \o r.ev
       /\ IF IsErr(r.thr)
          THEN pc' = "invalid" /\ outcome' = r.thr
          ELSE pc' = "validated" /\ UNCHANGED outcome
  /\ UNCHANGED <<call, base, active, heap, root, cache, applied, passed>>

\* return listener.root.value
ReadValue ==
  /\ pc = "validated"
  /\ \E r \in {ValueOf(Ctx(heap, active, base), St(log, cache), root)} :
       /\ log' = r.st.ev
       /\ cache' = r.st.cache
       /\ IF IsErr(r.thr)
          THEN pc' = "failed" /\ outcome' = r.thr
          ELSE pc' = "done" /\ outcome' = r.v
  /\ UNCHANGED <<call, base, active, heap, root, applied, passed>>

\* the reads of .value a caller makes on the nodes of a parsed tree
MaxReads == 2
Reads == IF pc = "reread" THEN applied.reads ELSE 0

\* node.value read once more, on any node of the tree
ReadAgain(n) ==
  /\ pc \in {"done", "reread"}
  /\ call = "parse"
  /\ Reads < MaxReads
  /\ \E r \in {ValueOf(Ctx(heap, active, base), St(log, cache), n)} :
       /\ applied' = [op |-> "read", node |-> n, held |-> cache[n], v |-> r.v,
                      thr |-> r.thr, from |-> Len(log), reads |-> Reads + 1]
       /\ log' = r.st.ev
       /\ cache' = r.st.cache
  /\ pc' = "reread"
  /\ UNCHANGED <<call, base, active, heap, root, outcome, passed>>

\* the caller takes the schema parseSchema returned to parse documents with it
UseSchema ==
  /\ pc = "done"
  /\ call = "parseSchema"
  /\ outcome.t = "schema"
  /\ active' = outcome
  /\ passed' = outcome
  /\ call' = "none"
  /\ pc' = "ready"
  /\ UNCHANGED <<base, heap, root, log, cache, outcome, applied>>

Next ==
  \/ \E x \in OverrideSet : CreateSchema(x)
  \/ \E doc \in SchemaDocs : StartParseSchema(doc)
  \/ \E doc \in Docs : StartParse(doc)
  \/ PreprocessRoot
  \/ ValidateRoot
  \/ ReadValue
  \/ UseSchema
  \/ \E n \in 1..Len(heap) : ReadAgain(n)

Spec == Init /\ [][Next]_vars

----------------------------------------------------------------------------
(* The declared types applied to nodes: type.validator(node), type.deserializer(node) *)

\* the longest array literal of the documents
MaxLen == 2

\* the overrides of createSchema under which the types are exercised
TypeOverrideSet ==
  { [o |-> NoOverrides, pre |-> EmptyTable],
    [o |-> Overrides({"Test", "Any", "None"}, {}, [k \in {"Y"} |-> UserD("throw")],
                     [k \in {"Test"} |-> UserD("reject")]),
     pre |-> EmptyTable],
    [o |-> Overrides({"Test", "Any", "None"}, {}, [k \in {"X"} |-> UserD("ovX")],
                     [k \in {"Any", "a", "Y"} |-> UserD("accept")]),
     pre |-> EmptyTable],
    [o |-> Overrides({}, {}, [k \in {"a"} |-> UserD("ovA")],
                     [k \in {":object", "X"} |-> UserD("reject")]),
     pre |-> EmptyTable] }

TypeSchemaDocs ==
  { SchemaDoc(<<TPair("X", TTag1("object", TObj(<<TPair("a", TTag("int")),
                                                   TPair("b", TTag1("maybe", TTag("string")))>>))),
                TPair("Y", TTag1("arrayOf", TTag("string"))),
                TPair("Z", TTag1("object", TObj(<<TPair("a", TTag1("arrayOf", TTag("string")))>>)))>>),
    SchemaDoc(<<TPair("X", TTag1("arrayOf", TArr(<<TTag("int"), TTag1("maybe", TTag("string"))>>))),
                TPair("Y", TTag1("arrayOf", TTag("int"))),
                TPair("Z", TTag1("arrayOf", TArr(<<TTag("string")>>))),
                TPair("W", TTag1("oneOf", TArr(<<TTag1("arrayOf", TTag("int")),
                                                  TTag1("arrayOf", TTag("string"))>>)))>>),
    SchemaDoc(<<TPair("X", TTag1("oneOf", TArr(<<TTag("Y"), TTag("Z")>>))),
                TPair("Y", TTag("number")),
                TPair("Z", TTag1("oneOf", TArr(<<TTag("bigint"), TTag("number"), TTag("string")>>)))>>),
    SchemaDoc(<<TPair("X", TTag1("maybe", TTag("Y"))),
                TPair("Y", TTag("bigint")),
                TPair("Z", TTag1("maybe", TTag("int")))>>),
    SchemaDoc(<<TPair("X", TTag1("object", TObj(<<TPair("a", TTag1("maybe", TTag("Test")))>>))),
                TPair("Z", TTag1("maybe", TTag("Test")))>>),
    SchemaDoc(<<TPair("Test", TTag1("class", TArr(<<TTag("int")>>))),
                TPair("Any", TTag("class")),
                TPair("None", TTag1("class", TArr(<<>>))),
                TPair("X", TTag("int")),
                TPair("int", TTag("string"))>>) }

\* the elements of the array literals
Elems == {TNum(1), TStr("a"), TNull}
ArrayDocs == {TArr(items) : items \in UNION {[1..k -> Elems] : k \in 0..MaxLen}}
ObjectDocs ==
  { TObj(<<>>),
    TObj(<<TPair("a", TNum(1))>>),
    TObj(<<TPair("a", TStr("a"))>>),
    TObj(<<TPair("b", TStr("a"))>>),
    TObj(<<TPair("a", TNum(1)), TPair("b", TStr("a"))>>),
    TObj(<<TPair("a", TNum(1)), TPair("b", TNum(1))>>),
    TObj(<<TPair("a", TNum(1)), TPair("b", TNull)>>),
    TObj(<<TPair("a", TNum(1)), TPair("c", TNum(2))>>),
    TObj(<<TPair("a", TStr("a")), TPair("c", TNum(2))>>),
    TObj(<<TPair("c", TNum(2)), TPair("b", TNum(1))>>),
    TObj(<<TPair("a", TNum(1)), TPair("a", TStr("a"))>>),
    TObj(<<TPair("a", TArr(<<TNum(1)>>))>>),
    TObj(<<TPair("a", TArr(<<TStr("a")>>))>>),
    TObj(<<TPair("a", TCtor("Test", <<TNum(1)>>))>>) }
CtorDocs ==
  { TCtor(cls, args) : cls \in {"Test", "Any", "None"},
                       args \in {<<>>, <<TNum(1)>>, <<TStr("a")>>, <<TNum(1), TStr("a")>>} }
PlainDocs == ArrayDocs \cup ObjectDocs \cup Elems
TypeDocs ==
  PlainDocs \cup {TTag1("X", d) : d \in PlainDocs} \cup {TTag1("Y", d) : d \in Elems}
    \cup {TTag1("Z", d) : d \in ObjectDocs} \cup CtorDocs

\* the types a schema document declared, by name
Declared(s) == s.meta.schema
Application(op, k, n, e, thr, v) ==
  [op |-> op, name |-> k, ty |-> ObjGet(Declared(active), k), node |-> n,
   e |-> e, thr |-> thr, v |-> v, from |-> Len(log)]

\* type.validator(node) of the type declared under k
ApplyValidator(k, n) ==
  /\ pc = "built"
  /\ call = "parse"
  /\ ObjHas(Declared(active), k)
  /\ \E r \in {TypeValidator(Ctx(heap, active, base), ObjGet(Declared(active), k), n)} :
       /\ applied' = Application("validator", k, n, r.e, r.thr, Undef)
       /\ log' = log \o r.ev
  /\ pc' = "applied"
  /\ UNCHANGED <<call, base, active, heap, root, cache, outcome, passed>>

\* type.deserializer(node) of the type declared under k
ApplyDeserializer(k, n) ==
  /\ pc = "built"
  /\ call = "parse"
  /\ ObjHas(Declared(active), k)
  /\ \E r \in {TypeDeserializer(Ctx(heap, active, base), St(log, cache),
                                  ObjGet(Declared(active), k), n)} :
       /\ applied' = Application("deserializer", k, n, NoErr, r.thr, r.v)
       /\ log' = r.st.ev
       /\ cache' = r.st.cache
  /\ pc' = "applied"
  /\ UNCHANGED <<call, base, active, heap, root, outcome, passed>>

NextTypes ==
  \/ \E x \in TypeOverrideSet : CreateSchema(x)
  \/ \E doc \in TypeSchemaDocs : StartParseSchema(doc)
  \/ \E doc \in TypeDocs : StartParse(doc)
  \/ PreprocessRoot
  \/ ValidateRoot
  \/ ReadValue
  \/ UseSchema
  \/ \E k \in {"X", "Y", "Z", "W", "Test", "Any", "None"} : \E n \in 1..Len(heap) :
       ApplyValidator(k, n)
  \/ \E k \in {"X", "Y", "Z", "W", "Test", "Any", "None"} : \E n \in 1..Len(heap) :
       ApplyDeserializer(k, n)

SpecTypes == Init /\ [][NextTypes]_vars

----------------------------------------------------------------------------
(* The built-in validators of createSchema, over documents `type value` *)

NumericTypes == NumericValidatorNames \cup {"int", "uint"}
NumberValues ==
  {Frac(15), Frac(0 - 5), Num(0), Num(1), Num(0 - 1), Num(127), Num(128), Num(0 - 128),
   Num(0 - 129), Num(255), Num(256), Num(32767), Num(32768), Num(0 - 32767),
   Num(0 - 32768), Num(0 - 32769), Num(40000), Num(65535), Num(65536)}
NumericDocs ==
  {TTag1(ty, TPrim(":number", v)) : ty \in NumericTypes, v \in NumberValues}
    \cup {TTag1(ty, TPrim(":bigint", BigInt(v))) : ty \in NumericTypes, v \in {5, 0 - 5}}
    \cup {TTag1(ty, TStr("a")) : ty \in NumericTypes}
\* the elements of an array literal: in and out of the range of every element type
ArrayElems == {TNum(1), TNum(300), TFrac(15)}
ElemSeqs == UNION {[1..k -> ArrayElems] : k \in 0..MaxLen}
\* Name([e, ...]), Name(e), Name() and the typed values Name [e, ...], Name [[e, ...]]
TypedArrayDocs ==
  {TCtor(ty, <<TArr(es)>>) : ty \in TypedArrayNames, es \in ElemSeqs}
    \cup {TCtor(ty, args) : ty \in TypedArrayNames, args \in {<<>>, <<TNum(1)>>}}
    \cup {TTag1(ty, TArr(es)) : ty \in {"Int8Array"}, es \in ElemSeqs}
    \cup {TTag1(ty, TArr(<<TArr(es)>>)) : ty \in {"Int8Array"}, es \in ElemSeqs}
BuiltinDocs == NumericDocs \cup TypedArrayDocs

NextBuiltins ==
  \/ CreateSchema([o |-> NoOverrides, pre |-> EmptyTable])
  \/ \E doc \in BuiltinDocs : StartParse(doc)
  \/ PreprocessRoot
  \/ ValidateRoot
  \/ ReadValue

SpecBuiltins == Init /\ [][NextBuiltins]_vars

----------------------------------------------------------------------------
(* Calls one after another with the schema objects the caller holds *)

\* the caller keeps createSchemaOfSchema(base) to pass it to parse, as parseSchema does
MakeSchemaOfSchema ==
  /\ pc = "ready"
  /\ call = "none"
  /\ active' = createSchemaOfSchema(base)
  /\ passed' = createSchemaOfSchema(base)
  /\ UNCHANGED <<pc, call, base, heap, root, log, cache, outcome, applied>>

\* the call has returned or thrown: its tree and its activeSchema are dropped and
\* the caller goes on with the schema object it passed
Return ==
  /\ pc \in {"done", "invalid", "failed"}
  /\ call # "none"
  /\ pc' = "ready"
  /\ call' = "none"
  /\ active' = passed
  /\ heap' = <<>>
  /\ root' = 0
  /\ log' = <<>>
  /\ cache' = <<>>
  /\ outcome' = Empty
  /\ UNCHANGED <<base, applied, passed>>

CallSchemaDocs ==
  { SchemaDoc(<<TPair("X", TTag("int"))>>),
    SchemaDoc(<<TPair("Y", TTag("X"))>>),
    SchemaDoc(<<TPair("Z", TTag("Y")), TPair("X", TTag("string"))>>),
    SchemaDoc(<<TPair("X", TTag("nosuch"))>>) }
CallDocs ==
  CallSchemaDocs \cup
  {TNum(1), TTag1("X", TNum(1)), TTag1("X", TStr("a")), TTag1("Y", TNum(1)),
   TTag1("int", TFrac(15))}
CallOverrideSet ==
  { [o |-> NoOverrides, pre |-> EmptyTable],
    [o |-> Overrides({}, {}, [k \in {"Y"} |-> UserD("throw")], [k \in {"Y"} |-> UserD("reject")]),
     pre |-> [k \in {"Y"} |-> UserD("noop")]] }

NextCalls ==
  \/ \E x \in CallOverrideSet : CreateSchema(x)
  \/ MakeSchemaOfSchema
  \/ \E doc \in CallSchemaDocs : StartParseSchema(doc)
  \/ \E doc \in CallDocs : StartParse(doc)
  \/ PreprocessRoot
  \/ ValidateRoot
  \/ ReadValue
  \/ UseSchema
  \/ Return

SpecCalls == Init /\ [][NextCalls]_vars

----------------------------------------------------------------------------
(* Assigning typeName to a node of a standing tree *)

CompoundKinds == {"array", "object", "class"}
SimpleKinds == {"pair", "typed", "proto"}

\* parent.children[pIdx] = n: a CompoundNode keeps its children in an array of its
\* own; the children of a SimpleNode are a getter that makes a new array from
\* child on every read, so the write lands in an array nobody holds
AssignChild(h, p, i, w) ==
  IF h[p].kind \in CompoundKinds
  THEN [h EXCEPT ![p].children = [h[p].children EXCEPT ![i] = w]]
  ELSE h

\* the branch of a node that has a parent: new TypedValueNode(rule, schema, name)
\* with child = this; neither parent reference is assigned
WrapInParent(h, n, name) ==
  LET p == h[n].parent
      pIdx == IndexOf(h[p].children, n)
      w == Len(h) + 1
  IN IF pIdx = 0 THEN h
     ELSE Append(AssignChild(h, p, pIdx, w), TypedValueNode(name, <<n>>))

\* the branch of a node without a parent: this.children[0] = new TypedValueNode(..),
\* then this.children[0].children[0] = this, each read of children being the array
\* of a CompoundNode or the new array of the getter
WrapFirstChild(h, n, name) ==
  IF h[n].children = <<>> THEN h
  ELSE
    LET w == Len(h) + 1
        made == Append(AssignChild(h, n, 1, w), TypedValueNode(name, <<>>))
        first == made[n].children[1]
    IN IF made[first].kind \in CompoundKinds
       THEN [made EXCEPT ![first].children =
               IF @ = <<>> THEN <<n>> ELSE [@ EXCEPT ![1] = n]]
       ELSE made

\* set typeName(name)
SetTypeNameOf(h, n, name) ==
  IF h[n].kind # "typed"
  THEN IF h[n].parent # 0 THEN WrapInParent(h, n, name)
       ELSE WrapFirstChild(h, n, name)
  ELSE [h EXCEPT ![n].typeName = name]

MaxRetags == 2
RetagNames == {"X", "int"}
Retags == IF applied = Empty THEN 0 ELSE applied.count

\* code that holds a node of the tree (a preprocessor, a validator) assigns its typeName
SetTypeName(n, name) ==
  /\ pc = "built"
  /\ Retags < MaxRetags
  /\ n \in 1..Len(heap)
  /\ heap' = SetTypeNameOf(heap, n, name)
  /\ applied' = [t |-> "retag", node |-> n, name |-> name, before |-> heap,
                 count |-> Retags + 1]
  /\ UNCHANGED <<pc, call, base, active, root, log, cache, outcome, passed>>

RetagDocs ==
  { TNum(1),
    TTag1("X", TNum(1)),
    TArr(<<TNum(1), TTag1("X", TNum(2))>>),
    TObj(<<TPair("a", TNum(1)), TPair("b", TArr(<<TNum(2)>>))>>),
    TCtor("X", <<TNum(1), TNum(2)>>),
    TProto("X", TObj(<<TPair("a", TNum(1))>>)) }

NextRetag ==
  \/ CreateSchema([o |-> NoOverrides, pre |-> EmptyTable])
  \/ \E doc \in RetagDocs : StartParse(doc)
  \/ \E n \in 1..Len(heap), name \in RetagNames : SetTypeName(n, name)

SpecRetag == Init /\ [][NextRetag]_vars

----------------------------------------------------------------------------
(* Reads of .value under deserializers of the caller *)

ValueOverrideSet ==
  { [o |-> NoOverrides, pre |-> EmptyTable],
    [o |-> Overrides({}, {}, [k \in {"*", ":number"} |->
                                IF k = "*" THEN UserD("ovAny") ELSE UserD("ovNum")],
                     [k \in {"X"} |-> UserD("accept")]),
     pre |-> EmptyTable],
    [o |-> Overrides({}, {}, [k \in {":number", "X"} |-> UserD("nothing")],
                     [k \in {"X"} |-> UserD("accept")]),
     pre |-> EmptyTable],
    [o |-> Overrides({}, {}, [k \in {":number"} |-> UserD("ovNum")],
                     [k \in {"X"} |-> UserD("accept")]),
     pre |-> EmptyTable],
    [o |-> Overrides({}, {}, [k \in {":number", "X"} |-> UserD("once")], EmptyTable),
     pre |-> EmptyTable],
    [o |-> Overrides({"Test"}, {"Point"}, EmptyTable, EmptyTable), pre |-> EmptyTable],
    [o |-> Overrides({}, {}, EmptyTable, [k \in {"*"} |-> UserD("accept")]),
     pre |-> EmptyTable],
    [o |-> Overrides({"Test"}, {"Point"}, EmptyTable, [k \in {"X"} |-> UserD("accept")]),
     pre |-> [k \in {":document", ":number", ":array", ":object", ":pair", "X", "Test",
                     "Point"} |-> UserD("noop")]] }

ValueDocs ==
  { TNum(1), TStr("a"), TNull,
    TTag1("X", TNum(1)),
    TTag1("X", TStr("a")),
    TTag1("string", TStr("a")),
    TTag1("int", TFrac(15)),
    TTag1("int8", TNum(1)),
    TTag("undefined"),
    TTag1("Test", TNum(1)),
    TTag1("Point", TObj(<<TPair("a", TNum(1))>>)),
    TTag1("Nope", TNum(1)),
    TArr(<<>>),
    TArr(<<TNum(1), TTag1("X", TNum(2))>>),
    TTag1("X", TArr(<<TNum(1), TTag1("X", TNum(2))>>)),
    TObj(<<TPair("a", TTag1("X", TNum(1)))>>),
    TCtor("Test", <<TNum(1)>>),
    TProto("Point", TObj(<<TPair("a", TNum(1))>>)) }

\* parse has thrown out of root.value; code that holds a node of the tree (a
\* preprocessor or a validator kept it) reads its value
ReadAfterThrow(n) ==
  /\ pc = "failed"
  /\ call = "parse"
  /\ Reads < MaxReads
  /\ \E r \in {ValueOf(Ctx(heap, active, base), St(log, cache), n)} :
       /\ applied' = [op |-> "read", node |-> n, held |-> cache[n], v |-> r.v,
                      thr |-> r.thr, from |-> Len(log), reads |-> Reads + 1]
       /\ log' = r.st.ev
       /\ cache' = r.st.cache
  /\ pc' = "reread"
  /\ UNCHANGED <<call, base, active, heap, root, outcome, passed>>

\* new Schema.Terminal(baseSchema, name).deserializer(node), on any node of the tree
ApplyTerminal(name, n) ==
  /\ pc = "built"
  /\ call = "parse"
  /\ \E r \in {TypeDeserializer(Ctx(heap, active, base), St(log, cache), Terminal(name), n)} :
       /\ applied' = [op |-> "deserializer", name |-> name, ty |-> Terminal(name),
                      node |-> n, e |-> NoErr, thr |-> r.thr, v |-> r.v, from |-> Len(log)]
       /\ log' = r.st.ev
       /\ cache' = r.st.cache
  /\ pc' = "applied"
  /\ UNCHANGED <<call, base, active, heap, root, outcome, passed>>

NextValues ==
  \/ \E x \in ValueOverrideSet : CreateSchema(x)
  \/ \E doc \in ValueDocs : StartParse(doc)
  \/ PreprocessRoot
  \/ ValidateRoot
  \/ ReadValue
  \/ \E n \in 1..Len(heap) : ReadAgain(n)
  \/ \E n \in 1..Len(heap) : ReadAfterThrow(n)
  \/ \E n \in 1..Len(heap) : ApplyTerminal("any", n)

SpecValues == Init /\ [][NextValues]_vars

----------------------------------------------------------------------------
(* The listener: the tree as the walk of the parse tree builds it *)

\* the rules whose enter pushes a frame and whose exit makes a node
Frame(k, tag) == [k |-> k, tag |-> tag]
Walking == pc = "walking"
stack == applied.stack
open == applied.open
Top == stack[Len(stack)]
Innermost == open[Len(open)].k
WalkState(frames, rules) == [op |-> "walk", stack |-> frames, open |-> rules]
\* beginNode(): this.stack.push([])
BeginNode(frames) == Append(frames, <<>>)
\* the frames once the top one is popped and id is pushed on the next
Popped(frames, id) ==
  [SubSeq(frames, 1, Len(frames) - 1) EXCEPT ![Len(frames) - 1] = Append(@, id)]

\* the grammar: where a value may start (root: value?, pair: key Colon value,
\* tValue: IDENTIFIER value?, arr and call: any number of values)
ValueMayStart ==
  /\ Walking
  /\ open # <<>>
  /\ \/ Innermost \in {"arr", "tctor"}
     \/ Innermost \in {"root", "pair", "tvalue"} /\ Top = <<>>

MaxNodes == 7
Room == Len(heap) + 2 * Len(open) < MaxNodes

\* walker.walk(listener, parser.root()) begins: enterRoot
EnterRoot ==
  /\ pc = "ready"
  /\ call = "none"
  /\ pc' = "walking"
  /\ call' = "parse"
  /\ heap' = <<>>
  /\ root' = 0
  /\ log' = <<>>
  /\ cache' = <<>>
  /\ outcome' = Empty
  /\ applied' = WalkState(BeginNode(<<<<>>>>), <<Frame("root", ":document")>>)
  /\ UNCHANGED <<base, active, passed>>

\* enterTArray, enterTValue, enterTCtor (two frames): a value that has parts starts
EnterValue(k, tag) ==
  /\ ValueMayStart
  /\ Room
  /\ k \in {"arr", "tvalue", "tctor"}
  /\ applied' = WalkState(IF k = "tctor" THEN BeginNode(BeginNode(stack)) ELSE BeginNode(stack),
                          Append(open, Frame(k, tag)))
  /\ UNCHANGED <<pc, call, base, active, heap, root, log, cache, outcome, passed>>

\* enterObj of an object literal that is a value, and enterTProto with the
\* enterObj of its object (tProto: IDENTIFIER Spread obj)
EnterObj(proto, tag) ==
  /\ ValueMayStart
  /\ Room
  /\ applied' = IF proto
                THEN WalkState(BeginNode(BeginNode(stack)),
                               open \o <<Frame("tproto", tag), Frame("obj", "")>>)
                ELSE WalkState(BeginNode(stack), Append(open, Frame("obj", "")))
  /\ UNCHANGED <<pc, call, base, active, heap, root, log, cache, outcome, passed>>

\* enterPair: obj is made of pairs only
EnterPair(key) ==
  /\ Walking
  /\ open # <<>>
  /\ Innermost = "obj"
  /\ Room
  /\ applied' = WalkState(BeginNode(stack), Append(open, Frame("pair", key)))
  /\ UNCHANGED <<pc, call, base, active, heap, root, log, cache, outcome, passed>>

\* enterTNumber .. exitTNumber and the like: beginNode, then endNode of a
\* PrimitiveNode on the empty frame
ExitPrimitive(x) ==
  /\ ValueMayStart
  /\ Room
  /\ heap' = AddNode(heap, PrimitiveNode(x.ty, x.v)).heap
  /\ applied' = WalkState(Popped(BeginNode(stack), Len(heap) + 1), open)
  /\ UNCHANGED <<pc, call, base, active, root, log, cache, outcome, passed>>

\* endNode(ctx, node) for the rule that closes: the frame becomes the children
EndNode(k, tag, frame) ==
  CASE k = "arr" -> AddNode(heap, ArrayNode(frame))
    [] k = "obj" -> AddNode(heap, ObjectNode(frame))
    [] k = "pair" -> AddNode(heap, PairNode(tag, frame))
    [] k = "tproto" -> AddNode(heap, ProtoConstructionNode(tag, frame))
    [] k = "tvalue" -> EndNodeTyped(heap, tag, frame)
    [] k = "tctor" ->
         LET args == AddNode(heap, ArrayNode(frame)) IN
         AddNode(args.heap, CtorCallValueNode(tag, <<args.id>>))

\* exitTArray, exitObj, exitPair, exitTValue, exitTProto, exitTCtor; a pair and a
\* prototype construction close once their value is there
ExitNode ==
  /\ Walking
  /\ Len(open) > 1
  /\ Innermost \in {"pair", "tproto"} => Top # <<>>
  /\ LET made == EndNode(Innermost, open[Len(open)].tag, Top)
         below == IF Innermost = "tctor"
                  THEN SubSeq(stack, 1, Len(stack) - 1) ELSE stack
     IN /\ heap' = made.heap
        /\ applied' = WalkState(Popped(below, made.id), SubSeq(open, 1, Len(open) - 1))
  /\ UNCHANGED <<pc, call, base, active, root, log, cache, outcome, passed>>

\* exitRoot up to this.root = this.endNode(ctx, new TypedValueNode(.., ":document"))
ExitRoot ==
  /\ Walking
  /\ Len(open) = 1
  /\ LET made == EndNodeTyped(heap, ":document", Top) IN
       /\ heap' = made.heap
       /\ root' = made.id
       /\ cache' = NoCache(made.heap)
  /\ pc' = "built"
  /\ applied' = Empty
  /\ UNCHANGED <<call, base, active, log, outcome, passed>>

WalkTags == {"X"}
WalkKeys == {"a"}
WalkPrimitives == {TNum(1), TStr("a")}

NextWalk ==
  \/ CreateSchema([o |-> NoOverrides, pre |-> EmptyTable])
  \/ EnterRoot
  \/ \E k \in {"arr", "tvalue", "tctor"}, tag \in WalkTags : EnterValue(k, tag)
  \/ \E proto \in BOOLEAN, tag \in WalkTags : EnterObj(proto, tag)
  \/ \E key \in WalkKeys : EnterPair(key)
  \/ \E x \in WalkPrimitives : ExitPrimitive(x)
  \/ ExitNode
  \/ ExitRoot

SpecWalk == Init /\ [][NextWalk]_vars

----------------------------------------------------------------------------
(* Schemas whose declarations refer to each other *)

RefSchemaDocs ==
  { SchemaDoc(<<TPair("X", TTag("Y")), TPair("Y", TTag("int"))>>),
    SchemaDoc(<<TPair("X", TTag1("arrayOf", TTag("Y"))),
                TPair("Y", TTag1("oneOf", TArr(<<TTag("int"), TTag("X")>>)))>>),
    SchemaDoc(<<TPair("A", TTag("B")), TPair("B", TTag("A"))>>),
    SchemaDoc(<<TPair("A", TTag("A"))>>),
    SchemaDoc(<<TPair("X", TTag1("maybe", TTag("A"))), TPair("A", TTag("B")),
                TPair("B", TTag("X"))>>) }
RefDocs ==
  { TNum(1), TStr("a"),
    TTag1("X", TNum(1)), TTag1("X", TStr("a")), TTag1("Y", TNum(1)),
    TTag1("X", TArr(<<TNum(1), TArr(<<TNum(2)>>)>>)),
    TTag1("A", TNum(1)), TTag1("B", TNum(1)), TTag("A"),
    TArr(<<TNum(1), TTag1("A", TNum(2))>>) }

NextRefs ==
  \/ CreateSchema([o |-> NoOverrides, pre |-> EmptyTable])
  \/ \E doc \in RefSchemaDocs : StartParseSchema(doc)
  \/ \E doc \in RefDocs : StartParse(doc)
  \/ PreprocessRoot
  \/ ValidateRoot
  \/ ReadValue
  \/ UseSchema

SpecRefs == Init /\ [][NextRefs]_vars

----------------------------------------------------------------------------
(* The phases of parse *)

Ops(op) == {i \in 1..Len(log) : log[i].op = op}
\* the validators that validate() of the nodes invoked, as positions of the log
Traversal == {i \in Ops("val") : log[i].by \in NodeKinds}
\* the validators that OneOf.deserializer invoked to find its alternative
Retried == {i \in Ops("val") : log[i].by = "OneOf.deserializer"}
Returned == pc = "done"
Validated == pc \in {"validated", "done", "failed"}

\* C1 as stated: the preprocessor calls come first, no validator call follows a
\* deserializer call, and a value is returned only for a tree that validates
C1_AsStated ==
  /\ \A i \in Ops("pre") : \A j \in 1..Len(log) : j < i => log[j].op = "pre"
  /\ \A i \in Ops("val") : \A j \in Ops("des") : i < j
  /\ Returned => Accepts(Validate(Ctx(heap, active, base), root))

\* C1: every preprocessor call precedes every validator and deserializer call;
\* every validator call that validate() of the tree makes precedes the first
\* deserializer call, the only validator calls after it being those that a
\* OneOf deserializer makes to find its alternative; and parse returns the
\* root's value only when validation of the whole tree has succeeded
C1_PhasesInOrder ==
  /\ \A i \in Ops("pre") : \A j \in 1..Len(log) : j < i => log[j].op = "pre"
  /\ \A i \in Traversal : \A j \in Ops("des") : i < j
  /\ \A i \in Ops("val") : \A j \in Ops("des") : j < i => i \in Retried
  /\ Returned => Accepts(Validate(Ctx(heap, active, base), root))

\* parse returned after calls of all three kinds, a OneOf deserializer among them
C1_Witness ==
  /\ Returned /\ call = "parse"
  /\ Ops("pre") # {} /\ Traversal # {} /\ Ops("des") # {}
  /\ Retried # {}

\* the names no table of the active schema holds, among the nodes of the tree
Nameless ==
  {n \in 1..Len(heap) : ~StartsWithColon(heap[n].typeName) /\ ~Known(active, heap[n].typeName)}
\* validate() threw the error of the unknown-type test
RejectedAsUnknown ==
  /\ pc = "invalid"
  /\ log # <<>>
  /\ log[Len(log)].op = "unknown"
  /\ outcome = ValueError(log[Len(log)].node, "unknown type")

ReturnedAt(i) ==
  RegistryValidator(Ctx(heap, active, base), active.validators, log[i].name, log[i].node,
                    log[i].by).e
\* while the call lasts: afterwards `active` is no longer the schema of the log
Failing == {i \in Traversal : call # "none" /\ IsErr(ReturnedAt(i))}

\* C3: when the validator that validate() invokes for a node returns an error,
\* parse throws that error, no validator is invoked for a later node of the
\* traversal, no deserializer runs and no value is cached
C3_FailFast ==
  \A i \in Failing :
    /\ pc = "invalid"
    /\ outcome = ReturnedAt(i)
    /\ \A j \in Traversal : j <= i
    /\ Ops("des") = {}
    /\ cache = NoCache(heap)

\* a validator returned an error while nodes with validators of their own were
\* still to come in the traversal
C3_Witness ==
  /\ Failing # {}
  /\ call = "parse"
  /\ \E i \in Failing : \E n \in 1..Len(heap) :
        /\ n > log[i].node
        /\ Defined(Get(active.validators, heap[n].typeName))
        /\ log[i].node \notin SeqToSet(Ancestors(heap, n))

----------------------------------------------------------------------------
(* The type algebra *)

Cx == Ctx(heap, active, base)
\* the state in which a declared type is applied: nothing logged, nothing cached
St0 == St(<<>>, NoCache(heap))
Applied(op, c) == pc = "applied" /\ applied.op = op /\ applied.ty.c = c
\* the calls the application made, as positions of the log
Calls(by) == {i \in 1..Len(log) : i > applied.from /\ log[i].by = by}
Passes(ty, n) == Accepts(TypeValidator(Cx, ty, n))
\* what a deserializer gave: its value or the exception it threw
Given(r) == [v |-> r.v, thr |-> r.thr]
\* the node itself when it is of the kind, the child of a Typed node that wraps one
Carried(n, kind) ==
  IF heap[n].kind = kind THEN n
  ELSE IF heap[n].kind = "typed" /\ heap[Child0(heap, n)].kind = kind THEN Child0(heap, n)
  ELSE 0
KeysOf(subs) == {subs[i].k : i \in 1..Len(subs)}
SubOf(subs, k) == subs[CHOOSE i \in 1..Len(subs) : subs[i].k = k].e

\* the first alternative of types, in declaration order, that satisfies Ok
First(types, Ok(_)) ==
  CHOOSE i \in 1..Len(types) : Ok(i) /\ \A j \in 1..(i - 1) : ~Ok(j)
Unwrapped(n) == IF heap[n].kind = "typed" THEN Child0(heap, n) ELSE n

\* C4 as stated: a OneOf validator accepts a node iff some alternative's
\* validator accepts it, and on a node it accepts its deserializer gives what
\* the deserializer of the first accepting alternative gives for that node (or
\* for the child the node wraps)
C4_AsStated ==
  /\ Applied("validator", "OneOf") =>
       (IsErr(applied.e) \/ IsErr(applied.thr)
          <=> \A i \in 1..Len(applied.ty.types) : ~Passes(applied.ty.types[i], applied.node))
  /\ Applied("deserializer", "OneOf") /\ Passes(applied.ty, applied.node) =>
       LET n == applied.node
           types == applied.ty.types
           first == First(types, LAMBDA i : Passes(types[i], n))
       IN [v |-> applied.v, thr |-> applied.thr]
            \in {Given(TypeDeserializer(Cx, St0, types[first], m)) : m \in {n, Unwrapped(n)}}

\* C4: a OneOf validator accepts a node iff at least one alternative's validator
\* reports no error on it; its deserializer validates the node (the child, when
\* the node is Typed) against the alternatives again, in declaration order, and
\* gives the value of the first alternative whose validator accepts and whose
\* deserializer does not throw: an alternative whose deserializer throws is
\* passed over, and when none is left the deserializer throws
C4_OneOfOrder ==
  /\ Applied("validator", "OneOf") =>
       /\ ~IsErr(applied.thr)
       /\ IsErr(applied.e)
            <=> \A i \in 1..Len(applied.ty.types) : ~Passes(applied.ty.types[i], applied.node)
  /\ Applied("deserializer", "OneOf") =>
       LET child == Unwrapped(applied.node)
           types == applied.ty.types
           Gives(i) == /\ Passes(types[i], child)
                       /\ ~IsErr(TypeDeserializer(Cx, St0, types[i], child).thr)
       IN IF \E i \in 1..Len(types) : Gives(i)
          THEN /\ ~IsErr(applied.thr)
               /\ applied.v = TypeDeserializer(Cx, St0, types[First(types, Gives)], child).v
          ELSE [applied.thr EXCEPT !.subs = <<>>]
                 = ValueError(applied.node, "could not deserialize value")

\* the first alternative that accepted the node threw in its deserializer and
\* the value came from a later alternative
C4_Witness ==
  /\ Applied("deserializer", "OneOf")
  /\ ~IsErr(applied.thr)
  /\ LET child == Unwrapped(applied.node)
         types == applied.ty.types
     IN /\ \E i \in 1..Len(types) : Passes(types[i], child)
        /\ IsErr(TypeDeserializer(Cx, St0,
                   types[First(types, LAMBDA i : Passes(types[i], child))], child).thr)

\* the pairs of an object node, and the value nodes written under key k
PairsOf(obj) == SeqToSet(heap[obj].children)
ValuesOf(obj, k) == {Child0(heap, p) : p \in {q \in PairsOf(obj) : heap[q].key = k}}
WrittenKeys(obj) == {heap[p].key : p \in PairsOf(obj)}
FieldType(fields, k) == ObjGet(fields, k)
\* the object node has passed its own validate(): the ':object' validator of
\* the caller, when there is one, accepted it
ObjectValidated(obj) ==
  Accepts(RegistryValidator(Cx, active.validators, ":object", obj, "object"))

\* C5: the validator of a TObject with declared fields accepts an object node
\* iff every declared field that is not Maybe-wrapped is present, every present
\* declared field passes its field validator, and the object has no key outside
\* the declared fields; otherwise it returns one composed error that lists
\* every missing field, every failing field and every undeclared key
C5_AsStated ==
  Applied("validator", "TObject") /\ applied.ty.fields.t = "object"
    /\ Carried(applied.node, "object") # 0 /\ ObjectValidated(Carried(applied.node, "object")) =>
    LET obj == Carried(applied.node, "object")
        fields == applied.ty.fields
        declared == SeqToSet(fields.ks)
        Absent == {k \in declared : FieldType(fields, k).c # "Maybe" /\ k \notin WrittenKeys(obj)}
        Rejected == {k \in declared : \E v \in ValuesOf(obj, k) : ~Passes(FieldType(fields, k), v)}
        Undeclared == WrittenKeys(obj) \ declared
    IN /\ ~IsErr(applied.thr)
       /\ ~IsErr(applied.e) <=> Absent \cup Rejected \cup Undeclared = {}
       /\ IsErr(applied.e) =>
            /\ applied.e.at = applied.node
            /\ KeysOf(applied.e.subs) = Absent \cup Rejected \cup Undeclared
            /\ Len(applied.e.subs) = Cardinality(Absent \cup Rejected \cup Undeclared)
            /\ \A k \in Absent :
                 SubOf(applied.e.subs, k) = ValueErrorS(applied.node, "missing field")
            /\ \A k \in Undeclared :
                 SubOf(applied.e.subs, k) = ValueErrorS(applied.node, "unknown field")
            /\ \A k \in Rejected : \E v \in ValuesOf(obj, k) :
                 SubOf(applied.e.subs, k) = Simplify(TypeValidator(Cx, FieldType(fields, k), v).e)

\* C5, for the objects that write no key twice: the validator accepts iff no
\* declared field is missing or failing and no key is undeclared, and the
\* composed error lists them all
C5_DistinctKeys ==
  Applied("validator", "TObject")
    /\ Carried(applied.node, "object") # 0
    /\ Cardinality(WrittenKeys(Carried(applied.node, "object")))
         = Len(heap[Carried(applied.node, "object")].children)
    => C5_AsStated

\* a TObject validator accepted an object in which a declared key is written
\* twice and the second value fails the field's validator
C5_Witness ==
  /\ Applied("validator", "TObject") /\ applied.ty.fields.t = "object"
  /\ ~IsErr(applied.e)
  /\ Carried(applied.node, "object") # 0
  /\ \E k \in SeqToSet(applied.ty.fields.ks) :
       \E v \in ValuesOf(Carried(applied.node, "object"), k) :
         ~Passes(FieldType(applied.ty.fields, k), v)

\* C6: the ArrayFixed validator accepts an array iff the array has no more
\* elements than declared types, every present index i passes types[i], and
\* every declared index beyond the array's length has a Maybe-wrapped type;
\* otherwise it returns one composed error holding a "missing index" entry for
\* every absent non-Maybe index, a "length mismatch" entry for every extra
\* index and the nested error of every failing index
C6_ArrayFixed ==
  Applied("validator", "ArrayFixed") /\ Carried(applied.node, "array") # 0 =>
    LET elems == heap[Carried(applied.node, "array")].children
        types == applied.ty.types
        Lacking == {i \in 1..Len(types) : i > Len(elems) /\ types[i].c # "Maybe"}
        Extra == {i \in 1..Len(elems) : i > Len(types)}
        Wrong == {i \in 1..Len(types) : i <= Len(elems) /\ ~Passes(types[i], elems[i])}
        All == Lacking \cup Extra \cup Wrong
    IN /\ ~IsErr(applied.thr)
       /\ ~IsErr(applied.e) <=> All = {}
       /\ IsErr(applied.e) =>
            /\ applied.e.at = applied.node
            /\ applied.e.m = "expected array with signature"
            /\ KeysOf(applied.e.subs) = {IdxKey[i] : i \in All}
            /\ Len(applied.e.subs) = Cardinality(All)
            /\ \A i \in Lacking :
                 SubOf(applied.e.subs, IdxKey[i]) = ValueErrorS(applied.node, "missing index")
            /\ \A i \in Extra :
                 SubOf(applied.e.subs, IdxKey[i]) = ValueErrorS(elems[i], "length mismatch")
            /\ \A i \in Wrong :
                 SubOf(applied.e.subs, IdxKey[i]) = Simplify(TypeValidator(Cx, types[i], elems[i]).e)

\* an ArrayFixed validator returned a composed error for an array that has a
\* failing index and an extra index
C6_Witness ==
  /\ Applied("validator", "ArrayFixed")
  /\ Carried(applied.node, "array") # 0
  /\ IsErr(applied.e)
  /\ Len(heap[Carried(applied.node, "array")].children) > Len(applied.ty.types)
  /\ ~Passes(applied.ty.types[1], heap[Carried(applied.node, "array")].children[1])
  /\ Len(applied.e.subs) = 2

\* C7: the ArrayOf(inner) validator accepts a node iff the node carries an
\* array and every element of that array passes inner's validator; a node that
\* carries no array is rejected with "expected array of type"; this for a Typed
\* node that wraps the array and for the Array node itself
C7_AsStated ==
  Applied("validator", "ArrayOf")
    /\ heap[applied.node].kind \in {"array", "typed", "primitive"}
    /\ (heap[applied.node].kind = "typed" =>
          heap[Child0(heap, applied.node)].kind \in {"array", "primitive"}) =>
    LET arr == Carried(applied.node, "array") IN
    /\ ~IsErr(applied.thr)
    /\ IF arr = 0 THEN applied.e = ValueError(applied.node, "expected array of type")
       ELSE ~IsErr(applied.e) <=>
              \A i \in 1..Len(heap[arr].children) : Passes(applied.ty.inner, heap[arr].children[i])

\* C7, for the Typed nodes that wrap the array: the validator accepts iff every
\* element passes inner's validator
C7_TypedNodes == heap # <<>> /\ pc = "applied" /\ heap[applied.node].kind = "typed" => C7_AsStated

\* an ArrayOf validator accepted an Array node that holds an element inner's
\* validator rejects
C7_Witness ==
  /\ Applied("validator", "ArrayOf")
  /\ heap[applied.node].kind = "array"
  /\ ~IsErr(applied.e)
  /\ \E i \in 1..Len(heap[applied.node].children) :
       ~Passes(applied.ty.inner, heap[applied.node].children[i])

\* C8: for a node whose rawValue is null or undefined the Maybe(inner) validator
\* reports no error and the deserializer returns that rawValue; for any other
\* rawValue the validation result is that of inner's validator and, on a node
\* the validator accepts, the deserialized value is that of inner's
\* deserializer on the same node
C8_AsStated ==
  /\ Applied("validator", "Maybe") =>
       IF IsNullish(RawValue(heap, applied.node))
       THEN ~IsErr(applied.e) /\ ~IsErr(applied.thr)
       ELSE [e |-> applied.e, thr |-> applied.thr]
              = [e |-> TypeValidator(Cx, applied.ty.inner, applied.node).e,
                 thr |-> TypeValidator(Cx, applied.ty.inner, applied.node).thr]
  /\ Applied("deserializer", "Maybe") /\ Passes(applied.ty, applied.node) =>
       IF IsNullish(RawValue(heap, applied.node))
       THEN applied.v = RawValue(heap, applied.node) /\ ~IsErr(applied.thr)
       ELSE [v |-> applied.v, thr |-> applied.thr]
              = Given(TypeDeserializer(Cx, St0, applied.ty.inner, applied.node))

\* C8, the short-circuit alone: on a null or undefined rawValue the Maybe
\* validator reports no error
C8_Absent ==
  Applied("validator", "Maybe") /\ IsNullish(RawValue(heap, applied.node)) =>
    ~IsErr(applied.e) /\ ~IsErr(applied.thr)

\* a Maybe deserializer gave, for a node its validator accepts, a value that
\* inner's deserializer does not give
C8_Witness ==
  /\ Applied("deserializer", "Maybe")
  /\ Passes(applied.ty, applied.node)
  /\ ~IsNullish(RawValue(heap, applied.node))
  /\ ~IsErr(applied.thr)
  /\ ~IsErr(TypeDeserializer(Cx, St0, applied.ty.inner, applied.node).thr)
  /\ applied.v # TypeDeserializer(Cx, St0, applied.ty.inner, applied.node).v

\* the arguments a class is declared with; for a class declared without a list,
\* the empty list
ExpectedArgs(ty) == IF ty.args.t = "type" THEN ty.args ELSE ArrayFixed(<<>>, "arguments")
ArgsOf(n) == heap[Child0(heap, n)].children

\* C9 as stated: the Class validator rejects a node whose class is not
\* registered; on a constructor call of a registered class it accepts, and
\* invokes the validator of the caller, only when the arguments pass args, a
\* class declared without an argument list expecting zero arguments
C9_AsStated ==
  Applied("validator", "Class") =>
    /\ applied.ty.className \notin active.classes => IsErr(applied.e)
    /\ applied.ty.className \in active.classes /\ heap[applied.node].kind = "class"
         /\ ~Passes(ExpectedArgs(applied.ty), Child0(heap, applied.node)) =>
           IsErr(applied.e) /\ Calls("Class") = {}

\* C9: the Class validator rejects a node with "missing class" when className
\* is not registered in classes; otherwise, when the class is declared with an
\* argument list and the node has children, it validates the first child against
\* args and returns its error without invoking the validator of the caller; a
\* class declared without a list takes any arguments; when the arguments pass,
\* the validator the base schema holds under the class name is invoked on the
\* node and its answer returned, and a node is accepted when there is none
C9_ClassValidator ==
  Applied("validator", "Class") =>
    LET ty == applied.ty
        n == applied.node
        user == Get(base.validators, ty.className)
    IN /\ ~IsErr(applied.thr)
       /\ IF ty.className \notin active.classes
          THEN applied.e = ValueError(n, "missing class") /\ Calls("Class") = {}
          ELSE IF /\ ty.args.t = "type"
                  /\ heap[n].children # <<>>
                  /\ ~Passes(ty.args, Child0(heap, n))
          THEN /\ applied.e = TypeValidator(Cx, ty.args, Child0(heap, n)).e
               /\ IsErr(applied.e)
               /\ Calls("Class") = {}
          ELSE IF Defined(user)
          THEN /\ \E i \in Calls("Class") :
                    /\ Calls("Class") = {i}
                    /\ log[i].op = "val" /\ log[i].name = ty.className /\ log[i].node = n
                    /\ \A j \in (applied.from + 1)..Len(log) : j <= i
               /\ applied.e = CallValidator(Cx, user, n).e
          ELSE applied.e = NoErr /\ Calls("Class") = {}

\* a class declared without an argument list accepted a constructor call that
\* has arguments, and the validator of the caller was asked
C9_Witness ==
  /\ Applied("validator", "Class")
  /\ applied.ty.args.t # "type"
  /\ heap[applied.node].kind = "class"
  /\ ArgsOf(applied.node) # <<>>
  /\ Calls("Class") # {}
  /\ ~IsErr(applied.e)

\* the schema parseSchema returned, and the names its document declares
ReturnedSchema == pc = "done" /\ call = "parseSchema" /\ outcome.t = "schema"
DeclaredNames == SeqToSet(Declared(outcome).ks)
\* what the override the base schema holds under the origin key of an Alias gives
AliasOverridden(op) ==
  /\ Applied(op, "Alias")
  /\ applied.ty.from # ""
  /\ Defined(Get(IF op = "validator" THEN base.validators ELSE base.deserializers,
                 applied.ty.from))

\* C10: for every name a schema document declares for which the base schema
\* holds a deserializer (a validator), the schema parseSchema returns has the
\* entry of the base schema under that name, not the one generated from the
\* declared type; and an Alias whose origin key has an override in the base
\* schema answers with that override, called on the node itself, and with
\* nothing else
C10_OverridesWin ==
  /\ ReturnedSchema =>
       \A k \in DeclaredNames :
         /\ Defined(Get(base.deserializers, k)) =>
              Get(outcome.deserializers, k) = base.deserializers[k]
         /\ Defined(Get(base.validators, k)) =>
              Get(outcome.validators, k) = base.validators[k]
  /\ AliasOverridden("validator") =>
       /\ applied.e = CallValidator(Cx, base.validators[applied.ty.from], applied.node).e
       /\ Calls("Alias") = {}
       /\ \E i \in Calls("Alias.from") :
            log[i].name = applied.ty.from /\ log[i].node = applied.node
  /\ AliasOverridden("deserializer") =>
       /\ Given(applied)
            = Given(CallDeserializer(Cx, St0, base.deserializers[applied.ty.from],
                                     applied.node))
       /\ Calls("Alias") = {}
       /\ \E i \in Calls("Alias.from") :
            log[i].name = applied.ty.from /\ log[i].node = applied.node

\* the schema parseSchema returned declares, under a name the caller overrides,
\* an Alias; it holds the override of the caller under that name, not the
\* generated entry, and the Alias applied to a node gave what the override gives
C10_Witness ==
  /\ AliasOverridden("deserializer")
  /\ base.deserializers[applied.ty.from].k = "user"
  /\ applied.name = applied.ty.from
  /\ Get(active.deserializers, applied.name) = base.deserializers[applied.name]
  /\ Get(active.deserializers, applied.name) # TypeD(applied.ty)
  /\ applied.v = Override(base.deserializers[applied.name].id)
  /\ applied.v # TypeDeserializer(Cx, St0, Alias("", applied.ty.to), applied.node).v

----------------------------------------------------------------------------
(* Memoization of values *)

\* the invocations, over the log, of the deserializer registered for node n
\* with that node
OwnCalls(n) ==
  {i \in 1..Len(log) : /\ log[i].op = "des"
                       /\ log[i].node = n
                       /\ log[i].name = WildKey(active.deserializers, heap[n].typeName)}
\* those that the getValue() of the node itself made
OwnReads(n) == {i \in OwnCalls(n) : log[i].by \in {"Typed", "Primitive"}}
Parsed == call = "parse" /\ pc \in {"done", "reread"}

\* C11 as stated: a read of .value on a node that holds a value returns that
\* value, and over a whole parse the deserializer registered for a node is
\* invoked with that node at most once, whoever invokes it
C11_AsStated ==
  /\ pc = "reread" /\ applied.held # Empty =>
       applied.v = applied.held /\ ~IsErr(applied.thr) /\ Len(log) = applied.from
  /\ call = "parse" /\ pc = "done" => \A n \in 1..Len(heap) : Cardinality(OwnCalls(n)) <= 1

\* C11, the reads of .value: a read on a node that holds a value returns that
\* value and invokes nothing, a first read that returns leaves its result as
\* the value the node holds, and the getValue() of a node invokes the
\* deserializer registered for the node at most once over the parse and the
\* reads that follow it
C11_Memoized ==
  /\ pc = "reread" /\ applied.held # Empty =>
       /\ applied.v = applied.held
       /\ ~IsErr(applied.thr)
       /\ Len(log) = applied.from
       /\ cache[applied.node] = applied.held
  /\ pc = "reread" /\ applied.held = Empty /\ ~IsErr(applied.thr) =>
       cache[applied.node] = applied.v
  /\ Parsed => \A n \in 1..Len(heap) : Cardinality(OwnReads(n)) <= 1

\* a parse returned after the deserializer registered for a node had been
\* invoked twice with that node, and a later read of the value of a node that
\* holds one invoked nothing
C11_Witness ==
  /\ pc = "reread"
  /\ applied.held # Empty
  /\ Defined(Get(active.deserializers, heap[applied.node].typeName))
  /\ Len(log) = applied.from
  /\ \E n \in 1..Len(heap) : Cardinality(OwnCalls(n)) = 2

----------------------------------------------------------------------------
(* The numeric built-in validators *)

\* the document `type value` that validate() has judged
Judged == call = "parse" /\ pc \in {"validated", "invalid"}
TypeTag == heap[Child0(heap, root)].typeName
Subject == RawValue(heap, root)
Rejected == pc = "invalid"
IntegerTypes == NumericTypes \ {"float32", "float64"}
Integral(v) == v.x10 % 10 = 0
BoundedTypes == {"int8", "uint8", "int16", "uint16", "int32", "uint32"}
\* the bounds numericValidators passes for each bounded type
BoundsPassed(ty) ==
  CASE ty = "int8" -> [lower |-> 0 - 128, upper |-> 127]
    [] ty = "uint8" -> [lower |-> 0, upper |-> 255]
    [] ty = "int16" -> [lower |-> 0, upper |-> 65535]
    [] ty = "uint16" -> [lower |-> 0 - 32767, upper |-> 32767]
    [] ty = "int32" -> [lower |-> 0 - 2147483647, upper |-> 2147483647]
    [] ty = "uint32" -> [lower |-> 0, upper |-> UInt32Max]
Outside(v, r) == Floor(v) < r.lower \/ Ceil(v) > r.upper
\* C12: every integer type rejects a non-integral number; every bounded type
\* rejects a number outside the [lower, upper] bounds its validator is built
\* with (float32 every number that is not positive); int8 accepts 127 and
\* rejects 128 and 1.5; int64 and uint64 accept a number and a bigint
C12_NumericValidators ==
  Judged /\ TypeTag \in NumericTypes =>
    /\ TypeTag \in IntegerTypes /\ Subject.t = "number" /\ ~Integral(Subject) => Rejected
    /\ TypeTag \in BoundedTypes /\ Subject.t = "number"
         /\ Outside(Subject, BoundsPassed(TypeTag)) => Rejected
    /\ TypeTag = "float32" /\ Subject.t = "number" /\ Subject.x10 <= 0 => Rejected
    /\ TypeTag = "int8" /\ Subject = Num(127) => ~Rejected
    /\ TypeTag = "int8" /\ Subject \in {Num(128), Frac(15)} => Rejected
    /\ TypeTag \in {"int64", "uint64"} /\ Subject.t = "bigint" => ~Rejected
    /\ TypeTag = "int64" /\ Subject.t = "number" /\ Integral(Subject) => ~Rejected
    /\ TypeTag = "uint64" /\ Subject.t = "number" /\ Integral(Subject) /\ Subject.x10 >= 0
         => ~Rejected

\* validate() rejected `int8 128`, an integer above the upper bound of int8
C12_Witness ==
  /\ call = "parse" /\ pc = "invalid"
  /\ TypeTag = "int8" /\ Subject = Num(128)
  /\ outcome.m = "expected number in range"

----------------------------------------------------------------------------
(* The binary-array built-in validators *)

\* the document Name([e, ...]) that validate() has judged: a constructor call of
\* a binary array whose first argument is an array literal
Called == heap[Child0(heap, root)]
FirstArg ==
  IF Called.kind = "class" /\ heap[Child0(heap, Child0(heap, root))].children # <<>>
  THEN heap[Child0(heap, Child0(heap, root))].children[1] ELSE 0
ArrayJudged ==
  /\ Judged /\ Called.typeName \in TypedArrayNames
  /\ FirstArg # 0 /\ heap[FirstArg].typeName = ":array"
ElementError(i) ==
  BuiltinValidator(TypedArrayElement[Called.typeName], heap, heap[FirstArg].children[i])
FailingElements == {i \in 1..Len(heap[FirstArg].children) : IsErr(ElementError(i))}
FirstFailing == CHOOSE i \in FailingElements : \A j \in FailingElements : i <= j

\* C13 as stated: the validator of a binary array rejects the array iff some
\* element fails the element validator, and the composed error it returns has
\* one nested error for every failing element, under the index of the element
C13_AsStated ==
  ArrayJudged =>
    /\ Rejected <=> FailingElements # {}
    /\ Rejected =>
         \A i \in FailingElements :
           \E j \in 1..Len(outcome.subs) :
             outcome.subs[j] = Sub(IdxKey[i], Simplify(ElementError(i)))

\* C13, as the code has it: a binary array is rejected iff some element fails
\* the element validator, and the composed error holds one nested error, that
\* of the first failing element, under the index 0 of the argument; an argument
\* that is not an array is rejected as such
C13_FirstFailure ==
  /\ ArrayJudged =>
       /\ Rejected <=> FailingElements # {}
       /\ Rejected =>
            outcome = Composed(Child0(heap, root), "invalid arguments",
                               <<Sub("0", Simplify(ElementError(FirstFailing)))>>)
  /\ Judged /\ Called.typeName \in TypedArrayNames /\ FirstArg # 0
       /\ heap[FirstArg].typeName # ":array"
       => Rejected /\ outcome.subs[1].e.m = "expected an array of type"

\* Int8Array([300, 1.5]) was rejected: both elements fail, the composed error
\* holds one nested error
C13_Witness ==
  /\ ArrayJudged /\ Rejected
  /\ Cardinality(FailingElements) = 2
  /\ Len(outcome.subs) = 1

----------------------------------------------------------------------------
(* Constructor calls and prototype constructions *)

\* the nodes of a kind whose tag is not a key of the table of the kind
NodesOf(kind) == {n \in 1..Len(heap) : heap[n].kind = kind}
NoClass == {n \in NodesOf("class") : heap[n].typeName \notin active.classes}
NoPrototype == {n \in NodesOf("proto") : heap[n].typeName \notin active.prototypes}

\* C14: a document with a constructor call whose name is not a key of classes,
\* or a prototype construction whose name is not a key of prototypes, fails
\* validation, whatever the other tables hold; when the call is the value of the
\* document the error is "unknown class" (or "unknown prototype") on that node;
\* no call whose name is a key of its table is reported so
C14_UnknownClass ==
  Judged =>
    /\ NoClass \cup NoPrototype # {} => pc = "invalid"
    /\ Child0(heap, root) \in NoClass =>
         outcome = ValueError(Child0(heap, root), "unknown class")
    /\ Child0(heap, root) \in NoPrototype =>
         outcome = ValueError(Child0(heap, root), "unknown prototype")
    /\ pc = "invalid" /\ outcome.m = "unknown class" => outcome.at \in NoClass
    /\ pc = "invalid" /\ outcome.m = "unknown prototype" => outcome.at \in NoPrototype

\* `X(1)` was rejected as an unknown class although X has a validator and a
\* deserializer
C14_Witness ==
  /\ Judged /\ pc = "invalid"
  /\ Child0(heap, root) \in NoClass
  /\ heap[Child0(heap, root)].typeName \in DOMAIN active.validators
  /\ heap[Child0(heap, root)].typeName \in DOMAIN active.deserializers
  /\ outcome.m = "unknown class"

----------------------------------------------------------------------------
(* The root of a schema document *)

\* validate() has run on the document of a call to parseSchema
SchemaJudged == call = "parseSchema" /\ pc \in {"validated", "invalid"}
\* the nodes tagged `schema` that are not the value of the document
NestedSchemas ==
  {n \in 1..Len(heap) : heap[n].typeName = "schema" /\ ParentTypeName(heap, n) # ":document"}
FirstNested == CHOOSE n \in NestedSchemas : \A m \in NestedSchemas : n <= m
\* validate() of a node that precedes n in the order of validation throws
FailsBefore(n) ==
  \E m \in 1..(n - 1) : IsErr(Validate(Ctx(heap, active, base), m).thr)
RootIsSchemaOfObject ==
  /\ Len(heap[root].children) = 1
  /\ heap[Child0(heap, root)].kind = "typed"
  /\ heap[Child0(heap, root)].typeName = "schema"
  /\ Len(heap[Child0(heap, root)].children) = 1
  /\ Child0TypeName(heap, Child0(heap, root)) = ":object"

----------------------------------------------------------------------------
(* The placement of class and proto declarations *)

\* the `class` and `proto` typed values of the document
Declarations ==
  {n \in 1..Len(heap) : heap[n].kind = "typed" /\ heap[n].typeName \in {"class", "proto"}}
\* n is the value of a key of the object of the schema under the root
TopLevelValue(n) ==
  LET p == heap[n].parent
      o == IF p = 0 THEN 0 ELSE heap[p].parent
      s == IF o = 0 THEN 0 ELSE heap[o].parent
  IN /\ s # 0
     /\ heap[p].kind = "pair" /\ heap[o].kind = "object"
     /\ heap[s].kind = "typed" /\ heap[s].typeName = "schema" /\ heap[s].parent = root
\* n is a member of the array of a oneOf that is the value of a top-level key
MemberOfTopLevelOneOf(n) ==
  LET a == heap[n].parent
      q == IF a = 0 THEN 0 ELSE heap[a].parent
  IN /\ q # 0
     /\ heap[a].kind = "array"
     /\ heap[q].kind = "typed" /\ heap[q].typeName = "oneOf" /\ TopLevelValue(q)
Members(n) == SeqToSet(heap[heap[n].parent].children)
WellPlaced(n, Allowed(_)) ==
  /\ \/ TopLevelValue(n)
     \/ MemberOfTopLevelOneOf(n) /\ \A m \in Members(n) : Allowed(heap[m].typeName)
  /\ ~StartsWithColon(getNamespace(heap, n, 0))
IsClassProtoObject(name) == name \in {"class", "proto", "object"}

\* C16 as stated: in a schema document that passes validation every `class`
\* and `proto` is the value of a top-level key, or a member of a oneOf that is
\* the value of a top-level key and whose members are all class, proto or
\* object; and the top-level key does not start with ':'
C16_AsStated ==
  SchemaJudged /\ pc = "validated" =>
    \A n \in Declarations : WellPlaced(n, IsClassProtoObject)

\* C16 as the code has it: the same, with the members of the oneOf tested by
\* the unanchored pattern /class|proto|object/, which any tag that contains one
\* of the three words passes
C16_Placement ==
  SchemaJudged /\ pc = "validated" =>
    \A n \in Declarations : WellPlaced(n, MatchesClassProtoObject)

\* a schema document with `oneOf [class, objectY]` passed validation: objectY
\* is none of class, proto and object
C16_Witness ==
  /\ SchemaJudged /\ pc = "validated"
  /\ \E n \in Declarations :
       /\ MemberOfTopLevelOneOf(n)
       /\ \E m \in Members(n) : ~IsClassProtoObject(heap[m].typeName)

----------------------------------------------------------------------------
(* No state shared between calls *)

\* the schema is one createSchemaOfSchema made: it has the ':document' hook
IsMetaSchema(s) ==
  In(":document", s.preprocessors) /\ Get(s.preprocessors, ":document").k = "meta"
\* a step of a call that is running
Running == call # "none" /\ call' = call
Tables(s) == [s EXCEPT !.meta = NoMeta]
\* what validate() throws for the document under a schema-of-schema made anew
FreshValidation ==
  Validate(Ctx(heap, Preprocess(heap, PR(createSchemaOfSchema(base), <<>>), root).s, base),
           root).thr

\* C17 as stated: no step of a call changes the schema object the caller
\* passed, nor the one it made with createSchema
C17_AsStated == [][Running => passed' = passed /\ base' = base]_vars

\* C17 as the code has it: no step of a call changes the tables of the schema
\* object the caller passed, nor meta.schema; parseSchema changes nothing of
\* it; parse changes nothing of a schema that createSchema or parseSchema
\* made: only meta.knownTypes of a schema createSchemaOfSchema made grows
C17_TablesKept ==
  [][Running =>
       /\ base' = base
       /\ Tables(passed') = Tables(passed)
       /\ passed'.meta.schema = passed.meta.schema
       /\ passed.meta.knownTypes \subseteq passed'.meta.knownTypes
       /\ call = "parseSchema" \/ ~IsMetaSchema(passed) => passed' = passed]_vars

\* parse accepted a schema document that names a type an earlier call with the
\* same schema-of-schema object declared: under a new one it is rejected
C17_Witness ==
  /\ call = "parse" /\ pc = "validated"
  /\ IsMetaSchema(passed)
  /\ IsErr(FreshValidation)

----------------------------------------------------------------------------
(* The rendering of errors *)

\* ValueError.message: getLoc(acc, simplified), and in the full form the file
\* name and the text of the expression of acc
Full(e, file) == [file |-> file, loc |-> e.at, expression |-> e.at, msg |-> e.m]
Simple(e) == [loc |-> e.at, msg |-> e.m]
Message(e, file) == IF e.simplified THEN Simple(e) ELSE Full(e, file)
FileNames == {"", "test.txjson"}

\* a ValueError, not an exception of the runtime
IsSemantic(e) == IsErr(e) /\ e.m \notin {"TypeError", "RangeError"}
RECURSIVE Embedded(_)
\* the errors whose messages are part of the message of e, at any depth
Embedded(e) ==
  UNION {{e.subs[i].e} \cup Embedded(e.subs[i].e) : i \in 1..Len(e.subs)}
\* parse has thrown a ValueError to the caller
Thrown == pc \in {"invalid", "failed"} /\ IsSemantic(outcome)

\* C18 as stated: the error parse throws is rendered in full (file name,
\* location, expression, message) and every error embedded in it is rendered
\* simplified (location and message)
C18_AsStated ==
  Thrown =>
    \A file \in FileNames :
      /\ Message(outcome, file) = Full(outcome, file)
      /\ \A e \in Embedded(outcome) : IsSemantic(e) => Message(e, file) = Simple(e)

\* C18 as the code has it: the error parse throws is rendered in full, every
\* error a validator embeds in its composed error is rendered simplified, and
\* the errors OneOf.deserializer embeds in "could not deserialize value" are
\* rendered in full
C18_Rendering ==
  Thrown =>
    \A file \in FileNames :
      /\ Message(outcome, file) = Full(outcome, file)
      /\ \A e \in {outcome} \cup Embedded(outcome) :
           \A i \in 1..Len(e.subs) :
             IsSemantic(e.subs[i].e) =>
               Message(e.subs[i].e, file) =
                 IF e.m = "could not deserialize value" THEN Full(e.subs[i].e, file)
                 ELSE Simple(e.subs[i].e)

\* parse threw "could not deserialize value" with the error of an alternative
\* embedded in full form
C18_Witness ==
  /\ pc = "failed" /\ outcome.m = "could not deserialize value"
  /\ \E e \in Embedded(outcome) : IsSemantic(e) /\ ~e.simplified

----------------------------------------------------------------------------
(* Retagging *)

\* the last assignment of typeName: its node, and the tree before it
Retagged == pc = "built" /\ applied.t = "retag"
Target == applied.node
Before == applied.before
FormerParent == Before[Target].parent
Slot == IndexOf(Before[FormerParent].children, Target)
Wrapper == Len(Before) + 1
\* the node was not Typed and occupied a slot of its parent's children
Wrappable == Retagged /\ Before[Target].kind # "typed" /\ FormerParent # 0 /\ Slot # 0

InPlace == heap = [Before EXCEPT ![Target].typeName = applied.name]
WrapperMade ==
  /\ Len(heap) = Wrapper
  /\ heap[Wrapper].kind = "typed"
  /\ heap[Wrapper].typeName = applied.name
  /\ heap[Wrapper].children = <<Target>>
WrapperInSlot ==
  /\ WrapperMade
  /\ heap[FormerParent].children = [Before[FormerParent].children EXCEPT ![Slot] = Wrapper]
TreeKept == \A i \in 1..Len(Before) : heap[i] = Before[i]

\* C19 as the specification states it: a Typed node is retagged in place; any
\* other node is replaced, in the slot it occupied in its parent's children, by a
\* new Typed wrapper that has it as only child, whatever the kind of the parent
C19_AsStated ==
  /\ (Retagged /\ Before[Target].kind = "typed") => InPlace
  /\ Wrappable => WrapperInSlot

\* C19: a Typed node is retagged in place, its parent and children unchanged; a
\* wrapper with the node as only child is made for any other node that occupies a
\* slot of its parent, and takes that slot, the other slots keeping their nodes,
\* when the parent is an Array, an Object or a Class; under a Pair, a Typed or a
\* Proto parent every node of the tree stays as it was
C19_Retag ==
  /\ (Retagged /\ Before[Target].kind = "typed") => InPlace
  /\ Wrappable => /\ WrapperMade
                  /\ IF Before[FormerParent].kind \in CompoundKinds
                     THEN WrapperInSlot
                     ELSE TreeKept

\* the value of a pair was given a typeName and the pair still holds the value itself
C19_Witness ==
  /\ Wrappable
  /\ Before[FormerParent].kind = "pair"
  /\ heap[FormerParent].children = <<Target>>
  /\ heap[Target].kind = "primitive"

\* the nodes of the tree under n
RECURSIVE Descendants(_, _)
Descendants(h, n) == {n} \cup UNION {Descendants(h, c) : c \in SeqToSet(h[n].children)}
\* every node found in the children of a node of the tree names that node as its parent
Linked(h) ==
  \A i \in Descendants(h, root) :
    \A j \in 1..Len(h[i].children) : h[h[i].children[j]].parent = i
\* the nodes that are neither the retagged node, nor its parent, nor a wrapper
Others == (1..Len(Before)) \ {Target, FormerParent}
OthersKept == \A i \in Others : heap[i] = Before[i]

\* C20 as the specification states it: after the setter has run every parent
\* reference names the node whose children hold the node (the wrapper's parent is
\* the former parent, the parent of the wrapped node is the wrapper), and all other
\* nodes keep their parent and their children
C20_AsStated ==
  Retagged => /\ Linked(heap)
              /\ OthersKept
              /\ (Wrappable /\ heap[FormerParent].children # Before[FormerParent].children)
                   => /\ heap[Wrapper].parent = FormerParent
                      /\ heap[Target].parent = Wrapper

\* C20: the setter assigns no parent reference: every node keeps the parent it had,
\* a wrapper has none, and all nodes but the parent of the retagged node keep
\* their children
C20_ParentsKept ==
  Retagged => /\ \A i \in 1..Len(Before) : heap[i].parent = Before[i].parent
              /\ \A i \in (1..Len(heap)) \ (1..Len(Before)) : heap[i].parent = 0
              /\ \A i \in (1..Len(Before)) \ {FormerParent} :
                   heap[i].children = Before[i].children
              /\ OthersKept

\* an element of an array was wrapped: the wrapper stands in the array without a
\* parent, and the element still names the array
C20_Witness ==
  /\ Wrappable
  /\ Before[FormerParent].kind = "array"
  /\ heap[FormerParent].children[Slot] = Wrapper
  /\ heap[Wrapper].parent = 0
  /\ heap[Target].parent = FormerParent

----------------------------------------------------------------------------
(* The value of Primitive and Typed nodes *)

ValuesRead == call = "parse" /\ pc \in {"done", "failed", "reread"}
Registered(key) == Defined(Get(active.deserializers, key))
\* the nodes of the two kinds that hold a value
Holding(kind) == {n \in 1..Len(heap) : heap[n].kind = kind /\ cache[n] # Empty}
\* what the deserializer registered under key returns for node n
Result(n, key) == CallDeserializer(Cx, St(log, cache), active.deserializers[key], n).v
\* the value of the child of a Typed node, undefined when it has none
ChildHeld(n) == IF heap[n].children = <<>> THEN Undef ELSE cache[heap[n].children[1]]

\* C21 as the specification states it: the value a Primitive or Typed node holds
\* is what the deserializer under its typeName returned, else what the wildcard
\* deserializer returned, else its rawValue
C21_AsStated ==
  ValuesRead =>
    \A n \in Holding("primitive") \cup Holding("typed") :
      cache[n] = IF Registered(heap[n].typeName) THEN Result(n, heap[n].typeName)
                 ELSE IF Registered("*") THEN Result(n, "*")
                 ELSE RawValue(heap, n)

\* C21: a Primitive node holds what the deserializer under its typeName, or else
\* the wildcard deserializer, returned, and its rawValue when there is neither or
\* the result is null or undefined; a Typed node holds what the deserializer under
\* its typeName returned, else the value of its child when its typeName is a key
\* of deserializers or validators, else what the wildcard deserializer returned,
\* else the value of its child when its typeName starts with a colon
C21_Value ==
  ValuesRead =>
    /\ \A n \in Holding("primitive") :
         LET key == WildKey(active.deserializers, heap[n].typeName) IN
         cache[n] = IF Registered(key) /\ ~IsNullish(Result(n, key))
                    THEN Result(n, key) ELSE heap[n].raw
    /\ \A n \in Holding("typed") :
         LET name == heap[n].typeName IN
         IF Registered(name) THEN cache[n] = Result(n, name)
         ELSE IF In(name, active.deserializers) \/ In(name, active.validators)
         THEN cache[n] = ChildHeld(n)
         ELSE IF In("*", active.deserializers)
         THEN Registered("*") /\ cache[n] = Result(n, "*")
         ELSE StartsWithColon(name) /\ cache[n] = ChildHeld(n)

\* a Typed node whose typeName has a validator and no deserializer holds the value
\* of its child although a wildcard deserializer that returns another value is
\* registered, and a Primitive node whose deserializer returned undefined holds
\* its rawValue
C21_Witness ==
  /\ ValuesRead
  /\ \/ \E n \in Holding("typed") :
          /\ ~Registered(heap[n].typeName) /\ Registered("*")
          /\ In(heap[n].typeName, active.validators)
          /\ cache[n] = ChildHeld(n)
          /\ cache[n] # Result(n, "*")
     \/ \E n \in Holding("primitive") :
          /\ Registered(heap[n].typeName)
          /\ IsNullish(Result(n, heap[n].typeName))
          /\ cache[n] = heap[n].raw
          /\ ~IsNullish(cache[n])

----------------------------------------------------------------------------
(* The order of validate() *)

\* the tests of validate() that concern node n itself, and the error they throw
OwnError(n) ==
  IF heap[n].kind = "proto" /\ heap[n].typeName \notin active.prototypes
  THEN ValueError(n, "unknown prototype")
  ELSE IF heap[n].kind = "class" /\ heap[n].typeName \notin active.classes
  THEN ValueError(n, "unknown class")
  ELSE ASTNodeValidate(Cx, n).thr
Below(n) == Descendants(heap, n) \ {n}
\* validate() of the tree threw the error of the tests of node n
ThrownBy(n) == pc = "invalid" /\ call # "none" /\ IsErr(OwnError(n)) /\ outcome = OwnError(n)
NameTest(n) ==
  ThrownBy(n) /\ heap[n].kind \in {"class", "proto"}
              /\ outcome.m \in {"unknown class", "unknown prototype"}

\* C22 as the specification states it: the error validate() throws is never the
\* error of a node that has an invalid descendant
C22_AsStated ==
  \A n \in 1..Len(heap) : ThrownBy(n) => \A d \in Below(n) : ~IsErr(OwnError(d))

\* C22: the unknown-type test and the registry validator of a node run only after
\* validate() has returned for every child, so their error is thrown only when
\* every descendant is valid; the unknown-class and unknown-prototype tests of a
\* Class or Proto node run before its children, whose validators are then never
\* invoked
C22_PostOrder ==
  /\ call # "none" =>
       \A i \in 1..Len(log) :
         log[i].op \in {"val", "unknown"} /\ log[i].by \in NodeKinds =>
           \A d \in SeqToSet(heap[log[i].node].children) : Accepts(Validate(Cx, d))
  /\ \A n \in 1..Len(heap) :
       /\ ThrownBy(n) /\ ~NameTest(n) => \A d \in Below(n) : ~IsErr(OwnError(d))
       /\ NameTest(n) => \A i \in Traversal : log[i].node \notin Below(n)

\* a constructor call of an unregistered class was rejected as unknown class
\* although one of its arguments is invalid as well
C22_Witness ==
  \E n \in 1..Len(heap) :
    /\ NameTest(n)
    /\ \E d \in Below(n) : IsErr(OwnError(d))

----------------------------------------------------------------------------
(* The order of preprocess() *)

Preprocessed ==
  call = "parse" /\ pc \in {"preprocessed", "validated", "invalid", "done", "failed", "reread"}
\* the nodes whose typeName has an entry in preprocessors
WithPreprocessor == {n \in 1..Len(heap) : Defined(Get(active.preprocessors, heap[n].typeName))}
PreCalls(n) == {i \in Ops("pre") : log[i].node = n}

----------------------------------------------------------------------------
(* Reads of .value that throw *)

\* a read of .value made on a node that held no value
FirstRead == pc = "reread" /\ call = "parse" /\ applied.op = "read" /\ applied.held = Empty
\* the deserializer that getValue() of node n invokes, "" when it invokes none
OwnDeserializer(n) ==
  LET name == heap[n].typeName IN
  CASE heap[n].kind = "primitive" ->
         IF Registered(WildKey(active.deserializers, name))
         THEN WildKey(active.deserializers, name) ELSE ""
    [] heap[n].kind = "typed" ->
         IF Registered(name) THEN name
         ELSE IF In(name, active.deserializers) \/ In(name, active.validators) THEN ""
         ELSE IF Registered("*") THEN "*" ELSE ""
    [] OTHER -> ""
\* the invocations of that deserializer with node n, as positions of the log
OwnInvocations(n) ==
  {i \in Ops("des") : log[i].node = n /\ log[i].name = OwnDeserializer(n)}

\* C24: a read of .value that throws leaves the node without a value; the next
\* read of a node without a value invokes its deserializer again, and when that
\* returns, its result is the value the node holds
C24_NotCached ==
  /\ pc = "failed" => cache[root] = Empty
  /\ FirstRead /\ IsErr(applied.thr) => cache[applied.node] = Empty
  /\ FirstRead /\ OwnDeserializer(applied.node) # "" =>
       \E i \in OwnInvocations(applied.node) : i > applied.from
  /\ FirstRead /\ ~IsErr(applied.thr) => cache[applied.node] = applied.v

\* the deserializer of a node threw at the first read and returned at the second,
\* whose result the node holds
C24_Witness ==
  /\ FirstRead
  /\ ~IsErr(applied.thr)
  /\ \E i, j \in OwnInvocations(applied.node) : i <= applied.from /\ applied.from < j
  /\ cache[applied.node] = applied.v
  /\ applied.v = Override("once")

----------------------------------------------------------------------------
(* The tree the listener leaves *)

Built == pc = "built" /\ root # 0
Kind(k) == {n \in 1..Len(heap) : heap[n].kind = k}
OnlyChild(n) == heap[n].children[1]

\* C25: once exitRoot has made the root, every Typed and every Pair node has
\* exactly one child, a Typed node written without a value having a Primitive
\* ':undefined' child; every Class node has one child, an Array; every Proto node
\* has one child, an Object; the root is the Typed ':document' node, it has no
\* parent, and every other node is in the children of the node its parent names,
\* and of no other node
C25_WellFormed ==
  Built =>
    /\ \A n \in Kind("typed") \cup Kind("pair") : Len(heap[n].children) = 1
    /\ \A n \in Kind("class") :
         Len(heap[n].children) = 1 /\ heap[OnlyChild(n)].kind = "array"
    /\ \A n \in Kind("proto") :
         Len(heap[n].children) = 1 /\ heap[OnlyChild(n)].kind = "object"
    /\ \A n \in Kind("object") : \A p \in SeqToSet(heap[n].children) : heap[p].kind = "pair"
    /\ heap[root].kind = "typed" /\ heap[root].typeName = ":document"
    /\ heap[root].parent = 0
    /\ \A n \in (1..Len(heap)) \ {root} :
         /\ heap[n].parent # 0
         /\ \A p \in 1..Len(heap) :
              n \in SeqToSet(heap[p].children) <=> p = heap[n].parent
    /\ Descendants(heap, root) = 1..Len(heap)

\* a tree with a constructor call without arguments and a tag written alone, whose
\* child is the implicit ':undefined' Primitive
C25_Witness ==
  /\ Built
  /\ \E n \in Kind("class") : heap[OnlyChild(n)].children = <<>>
  /\ \E n \in Kind("typed") :
       /\ n # root
       /\ heap[OnlyChild(n)].kind = "primitive"
       /\ heap[OnlyChild(n)].typeName = ":undefined"
       /\ heap[OnlyChild(n)].parent = n

----------------------------------------------------------------------------
(* Names at validation and at materialization *)

UnknownNames == {"unknown type", "unknown class", "unknown prototype"}
\* the error of the last read of .value on the validated tree, NoErr when it returned
ReadError ==
  IF call = "parse" /\ pc = "failed" THEN outcome
  ELSE IF call = "parse" /\ pc = "reread" THEN applied.thr
  ELSE NoErr

\* C26 as the specification states it: no read of .value on a tree that validate()
\* accepted throws an unknown type, unknown class or unknown prototype error
C26_AsStated == ReadError.m \notin UnknownNames

\* C26, what validation does ensure: no read on a validated tree throws an unknown
\* class or unknown prototype error, and an unknown type error comes only from a
\* Typed node whose typeName does not start with a colon and is a key neither of
\* deserializers nor of validators, under a schema without wildcard deserializer
C26_Names ==
  /\ ReadError.m \notin {"unknown class", "unknown prototype"}
  /\ ReadError.m = "unknown type" =>
       /\ heap[ReadError.at].kind = "typed"
       /\ ~StartsWithColon(heap[ReadError.at].typeName)
       /\ ~In(heap[ReadError.at].typeName, active.deserializers)
       /\ ~In(heap[ReadError.at].typeName, active.validators)
       /\ ~In("*", active.deserializers)
       /\ \/ heap[ReadError.at].typeName \in active.classes \cup active.prototypes
          \/ In("*", active.validators)

\* parse threw unknown type out of root.value for a tag that names a registered
\* class and had passed validate()
C26_Witness ==
  /\ call = "parse" /\ pc = "failed"
  /\ outcome.m = "unknown type"
  /\ heap[outcome.at].typeName \in active.classes
  /\ Accepts(Validate(Cx, root))

----------------------------------------------------------------------------
(* Repeated keys under a TObject *)

\* the value node of the last pair written under key k
RECURSIVE LastField(_, _)
LastField(pairs, k) ==
  IF pairs = <<>> THEN 0
  ELSE IF heap[pairs[Len(pairs)]].key = k THEN Child0(heap, pairs[Len(pairs)])
  ELSE LastField(SubSeq(pairs, 1, Len(pairs) - 1), k)
\* the value node the TObject validator looks at for key k
CheckedField(obj, k) == FindField(heap, heap[obj].children, k)
\* what the deserializer of field k makes of value node v
FieldValue(fields, k, v) ==
  IF Defined(Get(active.deserializers, k))
  THEN CallDeserializer(Cx, St0, active.deserializers[k], v).v
  ELSE TypeDeserializer(Cx, St0, ObjGet(fields, k), v).v
\* the deserializer of a TObject with declared fields returned for an object
\* that its validator accepts
Deserialized ==
  /\ Applied("deserializer", "TObject") /\ applied.ty.fields.t = "object"
  /\ ~IsErr(applied.thr)
  /\ Carried(applied.node, "object") # 0
  /\ Passes(applied.ty, applied.node)

\* C27 as the specification states it: every field of the deserialized object is
\* the value of the pair that the validator checked
C27_AsStated ==
  Deserialized =>
    LET obj == Carried(applied.node, "object") IN
    \A k \in WrittenKeys(obj) :
      /\ CheckedField(obj, k) = LastField(heap[obj].children, k)
      /\ ObjGet(applied.v, k) = FieldValue(applied.ty.fields, k, CheckedField(obj, k))

\* C27: every field of the deserialized object is the value of the last pair
\* written under its key, while the validator has checked the first one: they are
\* the same pair for every key that is written once
C27_LastPair ==
  Deserialized =>
    LET obj == Carried(applied.node, "object") IN
    \A k \in WrittenKeys(obj) :
      /\ ObjGet(applied.v, k) = FieldValue(applied.ty.fields, k, LastField(heap[obj].children, k))
      /\ Cardinality({p \in PairsOf(obj) : heap[p].key = k}) = 1 =>
           CheckedField(obj, k) = LastField(heap[obj].children, k)

\* the deserialized object holds, under a key written twice, the value of a pair
\* that fails the validator of the field
C27_Witness ==
  /\ Deserialized
  /\ \E k \in WrittenKeys(Carried(applied.node, "object")) :
       LET v == LastField(heap[Carried(applied.node, "object")].children, k) IN
       /\ v # CheckedField(Carried(applied.node, "object"), k)
       /\ ~Passes(FieldType(applied.ty.fields, k), v)
       /\ ObjGet(applied.v, k) = FieldValue(applied.ty.fields, k, v)

----------------------------------------------------------------------------
(* The Terminal deserializer *)

\* the outcome of the last application, and of a read of .value on node n
Outcome == [v |-> applied.v, thr |-> applied.thr]
Read(n) == Given(ValueOf(Cx, St0, n))
TerminalApplied(kinds) ==
  Applied("deserializer", "Terminal") /\ heap[applied.node].kind \in kinds

\* C28 as the specification states it: for a Typed node the Terminal deserializer
\* returns the value of the tagged sub-value, for a Primitive, Array or Object
\* node the value of the node itself
C28_AsStated ==
  /\ TerminalApplied({"typed"}) => Outcome = Read(Child0(heap, applied.node))
  /\ TerminalApplied({"primitive", "array", "object"}) => Outcome = Read(applied.node)

\* C28: for a Primitive node the Terminal deserializer returns the value of the
\* node; for a node of any other kind it returns the value of the node's first
\* child (the sub-value of a Typed node, the first element of an Array, the
\* value of the first pair of an Object) and fails with a TypeError when the
\* node has no child
C28_Terminal ==
  /\ TerminalApplied({"primitive"}) => Outcome = Read(applied.node)
  /\ TerminalApplied(NodeKinds \ {"primitive"}) =>
       IF heap[applied.node].children = <<>>
       THEN applied.thr = TypeError
       ELSE Outcome = Read(heap[applied.node].children[1])

\* given an Array node of two elements the Terminal deserializer returned the
\* value of the first element
C28_Witness ==
  /\ TerminalApplied({"array"})
  /\ Len(heap[applied.node].children) = 2
  /\ ~IsErr(applied.thr)
  /\ applied.v = cache[heap[applied.node].children[1]]
  /\ applied.v # Read(applied.node).v

----------------------------------------------------------------------------
(* References between declared names *)

\* the names a type hands its own node to: an Alias, or a Maybe or OneOf over one
RECURSIVE SameNodeRefs(_)
SameNodeRefs(ty) ==
  CASE ty.c = "Alias" -> {ty.to}
    [] ty.c = "Maybe" -> SameNodeRefs(ty.inner)
    [] ty.c = "OneOf" -> UNION {SameNodeRefs(ty.types[i]) : i \in 1..Len(ty.types)}
    [] OTHER -> {}
NamesOf(s) == SeqToSet(Declared(s).ks)
RefsOf(s, k) == IF k \in NamesOf(s) THEN SameNodeRefs(ObjGet(Declared(s), k)) ELSE {}
\* the names reached from the names in front, seen being those already followed
RECURSIVE ReachedFrom(_, _, _)
ReachedFrom(s, front, seen) ==
  IF front \subseteq seen THEN seen
  ELSE ReachedFrom(s, UNION {RefsOf(s, k) : k \in front \ seen}, seen \cup front)
\* a declared name that leads back to itself
Circular(s) ==
  \E k \in NamesOf(s) : k \in ReachedFrom(s, RefsOf(s, k), {})

Threw == pc \in {"invalid", "failed"}

\* C29 as the specification states it: parseSchema accepts declarations that
\* refer to names declared later or to each other, and parse under the resulting
\* schema returns a value or throws a semantic error
C29_AsStated ==
  /\ call = "parseSchema" => ~Threw
  /\ call = "parse" /\ Threw => IsSemantic(outcome)

\* C29: parseSchema accepts declarations that refer to names declared later or to
\* each other; parse under the resulting schema returns a value or throws a
\* semantic error unless a declared name leads back to itself through aliases,
\* maybe and oneOf alone, and then validate() of a node checked against that name
\* ends with the RangeError of the exhausted call stack
C29_References ==
  /\ call = "parseSchema" => ~Threw
  /\ call = "parse" /\ Threw /\ ~IsSemantic(outcome) =>
       /\ outcome = RangeError
       /\ pc = "invalid"
       /\ Circular(active)

\* parse of a document tagged with one of two names declared as aliases of each
\* other ended with a RangeError
C29_Witness ==
  /\ call = "parse" /\ pc = "invalid"
  /\ outcome = RangeError
  /\ Circular(active)
  /\ \E n \in Kind("typed") : RefsOf(active, heap[n].typeName) # {heap[n].typeName}
                                /\ heap[n].typeName \in NamesOf(active)

----------------------------------------------------------------------------
(* The sized integer built-ins *)

UnsignedTypes == {"uint8", "uint16", "uint32", "uint64"}
\* the integers of the width and signedness a type is named after; the numbers
\* of the documents stay below the bounds of the 32-bit types
WidthRange(ty) ==
  CASE ty = "int8" -> [lower |-> 0 - 128, upper |-> 127]
    [] ty = "uint8" -> [lower |-> 0, upper |-> 255]
    [] ty = "int16" -> [lower |-> 0 - 32768, upper |-> 32767]
    [] ty = "uint16" -> [lower |-> 0, upper |-> 65535]
    [] ty = "int32" -> [lower |-> 0 - 2147483647 - 1, upper |-> 2147483647]
    [] ty = "uint32" -> [lower |-> 0, upper |-> UInt32Max]
\* what the validator of a bounded type lets through: the bounds it is built
\* with, and nothing negative when it is built on createUintValidator
LetThrough(ty) ==
  [lower |-> IF ty = "int8" THEN 0 ELSE BoundsPassed(ty).lower,
   upper |-> BoundsPassed(ty).upper]
Negative(v) ==
  \/ v.t = "number" /\ v.x10 < 0
  \/ v.t = "bigint" /\ v.n < 0

\* C30 as the specification states it: a sized integer type accepts exactly the
\* integers of its width and signedness, and an unsigned type rejects every
\* negative number and every negative bigint
C30_AsStated ==
  Judged /\ TypeTag \in BoundedTypes \cup UnsignedTypes =>
    /\ TypeTag \in BoundedTypes /\ Subject.t = "number" /\ Integral(Subject) =>
         (Rejected <=> Outside(Subject, WidthRange(TypeTag)))
    /\ TypeTag \in UnsignedTypes /\ Negative(Subject) => Rejected

\* C30: a sized integer type accepts exactly the integers within the bounds its
\* validator is built with: int8 0..127, uint8 0..255, int16 0..65535, uint16
\* -32767..32767, int32 from -2147483647, uint32 from 0; uint8, uint32 and uint64
\* reject a negative number, every one of these six types rejects a bigint, and
\* uint64 accepts a bigint, a negative one included
C30_SizedIntegers ==
  Judged /\ TypeTag \in BoundedTypes \cup UnsignedTypes =>
    /\ TypeTag \in BoundedTypes /\ Subject.t = "number" /\ Integral(Subject) =>
         (Rejected <=> Outside(Subject, LetThrough(TypeTag)))
    /\ TypeTag \in UnsignedTypes \ {"uint16"} /\ Subject.t = "number" /\ Negative(Subject)
         => Rejected
    /\ TypeTag \in BoundedTypes /\ Subject.t = "bigint" => Rejected
    /\ TypeTag = "uint64" /\ Subject.t = "bigint" => ~Rejected

\* validate() rejected `int8 -1`, a negative integer within the width of a
\* signed type, as not positive
C30_Witness ==
  /\ call = "parse" /\ pc = "invalid"
  /\ TypeTag = "int8" /\ Subject = Num(0 - 1)
  /\ outcome.m = "expected positive value"

====
